---- MODULE Spec2Model ----
(***************************************************************************)
(* Model of the KNBS RAG system's retrieval pipeline (src/src/vectordb.py) *)
(* : chunking, ingestion in batches into the Chroma collection, and        *)
(* threshold-filtered search; and of the assistant built on it             *)
(* (src/src/app.py): start-up, loading of the documents, and the           *)
(* interactive loop.                                                       *)
(*                                                                         *)
(* Strings are sequences of one-character strings, so that formatting      *)
(* (chunk ids), stripping and splitting are computed, not assumed.         *)
(* Distances are integers (hundredths); only their order matters.          *)
(***************************************************************************)
EXTENDS Integers, Sequences, FiniteSets, TLC

VARIABLES
    collection,      \* the Chroma collection: records in insertion order
    pc,              \* "idle", or "adding" between two batches of add_documents
    all_chunks_text, \* add_documents locals, kept while the call is running
    all_metadatas,
    all_ids,
    batch_i,         \* loop variable i of the batch loop (0-based)
    addCall,         \* the arguments and the count() seen at the start of the running/last add_documents
    addOutcome,      \* "none" | "running" | "returned" | "raised:<the call that raised>"
    batches,         \* the batches handed to collection.add by the running/last call, in order
    neighbours,      \* what collection.query returned to the last search (flattened)
    searchCall,      \* the last search: its threshold, count() at the time, the call that failed
    searchResult,    \* the dictionary the last search returned
    searchOutcome,   \* "none" | "returned" | "raised"
    earlier,         \* the add_documents calls before the running/last one, with their outcomes
    calls,           \* number of add_documents calls started so far
    environ,         \* os.environ: the three credentials, each unset or a string
    prompt_config,   \* the template of prompt_config.yaml, missing or a string
    config,          \* the values of config.yaml that the assistant reads
    data_dir,        \* the files of the data directory, in the order of os.listdir
    mainPc,          \* position of main: "off" (main does not run), "start", "load", "ingest",
                     \* "ingesting", "loop", or one of the ends "returned", "ended", "fatal"
    error,           \* the exception that left RAGAssistant.__init__ or add_documents, or "none"
    llm,             \* the provider RAGAssistant._initialize_llm returned, or "none"
    constructed,     \* the provider clients constructed, in order
    vector_db,       \* whether RAGAssistant.__init__ constructed its VectorDB
    chain,           \* whether RAGAssistant.__init__ built its chain
    sample_docs,     \* what load_documents returned to main
    question,        \* the last line main read, stripped
    reply,           \* what the last RAGAssistant.invoke returned (pieces of a string)
    invokeOutcome,   \* "none" | "returned" | "raised"
    llm_calls,       \* number of chain.invoke calls
    llm_input,       \* the argument of the last chain.invoke
    llm_outcome,     \* what chain.invoke did in the last invoke, if it was called
    invocations,     \* number of RAGAssistant.invoke calls
    reads,           \* number of lines main read
    available,       \* PDFPLUMBER_AVAILABLE, PYPDF2_AVAILABLE, PDF_SUPPORT_AVAILABLE
    pdf_call,        \* the last call of a document source: the operation and its files
    pdf_result,      \* the documents it returned
    pdf_outcome,     \* "none" | "returned" | the exception that left the call
    pdf_tried,       \* the extraction methods the last process_pdf_file tried, in order
    chunk_call,      \* the arguments of the last chunk_text called on its own
    chunk_result,    \* the chunks it returned
    chunk_outcome    \* "none" | "returned" | "raised"

appVars == <<environ, prompt_config, config, data_dir, mainPc, error, llm, constructed,
             vector_db, chain, sample_docs, question, reply, invokeOutcome, llm_calls,
             llm_input, llm_outcome, invocations, reads>>

pdfVars == <<available, pdf_call, pdf_result, pdf_outcome, pdf_tried>>
chunkVars == <<chunk_call, chunk_result, chunk_outcome>>
otherVars == <<pdfVars, chunkVars>>

vars == <<collection, pc, all_chunks_text, all_metadatas, all_ids, batch_i, addCall,
          addOutcome, batches, neighbours, searchCall, searchResult, searchOutcome, earlier,
          calls, appVars, otherVars>>

addVars == <<all_chunks_text, all_metadatas, all_ids, batch_i, addCall, addOutcome, batches>>
searchVars == <<neighbours, searchCall, searchResult, searchOutcome>>

-----------------------------------------------------------------------------
(* Strings *)

SP == " "
NL == "\n"

Min(S) == CHOOSE x \in S : \A y \in S : x <= y
Max(S) == CHOOSE x \in S : \A y \in S : x >= y

IsSpace(c) == c \in {SP, NL}

\* the part of s from the first to the last of the positions keep
Between(s, keep) == IF keep = {} THEN <<>> ELSE SubSeq(s, Min(keep), Max(keep))

\* str.strip()
Strip(s) == Between(s, {i \in 1..Len(s) : ~IsSpace(s[i])})

DigitChar(d) == <<"0", "1", "2", "3", "4", "5", "6", "7", "8", "9">>[d + 1]

\* str(n) for a non-negative integer
RECURSIVE Str(_)
Str(n) == IF n < 10 THEN <<DigitChar(n)>> ELSE Str(n \div 10) \o <<DigitChar(n % 10)>>

\* "".join(parts)
RECURSIVE Join(_)
Join(parts) == IF parts = <<>> THEN <<>> ELSE Head(parts) \o Join(Tail(parts))

\* concatenation of a sequence of sequences
RECURSIVE Concat(_)
Concat(seqs) == IF seqs = <<>> THEN <<>> ELSE Head(seqs) \o Concat(Tail(seqs))

\* sep.join(parts)
RECURSIVE JoinWith(_, _)
JoinWith(sep, parts) ==
    IF parts = <<>> THEN <<>>
    ELSE IF Len(parts) = 1 THEN parts[1]
    ELSE parts[1] \o sep \o JoinWith(sep, Tail(parts))

-----------------------------------------------------------------------------
(* RecursiveCharacterTextSplitter(chunk_size, chunk_overlap,               *)
(*     separators=["\n\n", "\n", " ", ""]).split_text(text)                *)

separators == << <<NL, NL>>, <<NL>>, <<SP>>, <<>> >>

MatchesAt(text, sep, i) ==
    /\ i >= 1
    /\ i + Len(sep) - 1 <= Len(text)
    /\ SubSeq(text, i, i + Len(sep) - 1) = sep

\* re.search(re.escape(sep), text)
Contains(text, sep) == \E i \in 1..Len(text) : MatchesAt(text, sep, i)

\* start positions of the leftmost non-overlapping matches of sep, from position from on
RECURSIVE MatchStarts(_, _, _)
RECURSIVE MatchStartsAmong(_, _, _)
MatchStarts(text, sep, from) ==
    MatchStartsAmong(text, sep, {i \in from..Len(text) : MatchesAt(text, sep, i)})

MatchStartsAmong(text, sep, cands) ==
    IF cands = {} THEN <<>>
    ELSE <<Min(cands)>> \o MatchStarts(text, sep, Min(cands) + Len(sep))

\* _split_text_with_regex(text, sep, keep_separator=True): the separator stays at the
\* start of the piece that follows it; empty pieces are dropped
CutAt(text, cuts) ==
    SelectSeq(<<>> \o [j \in 1..(Len(cuts) - 1) |-> SubSeq(text, cuts[j], cuts[j + 1] - 1)],
              LAMBDA p : p /= <<>>)

SplitWithRegex(text, sep) ==
    IF sep = <<>> THEN <<>> \o [i \in 1..Len(text) |-> <<text[i]>>]
    ELSE CutAt(text, <<1>> \o MatchStarts(text, sep, 1) \o <<Len(text) + 1>>)

\* _join_docs(docs, ""): None is modelled as the empty string
\* the splitter built with strip_whitespace=False
JoinDocs_NoStrip(docs) == Join(docs)

JoinDocs(docs) == Strip(Join(docs))

\* the while loop of _merge_splits (separator "", so separator_len = 0)
RECURSIVE MergePop(_, _, _, _)
MergePop(st, len, chunk_size, chunk_overlap) ==
    IF st.total > chunk_overlap \/ (st.total + len > chunk_size /\ st.total > 0)
    THEN MergePop([st EXCEPT !.total = @ - Len(Head(st.cur)), !.cur = Tail(@)],
                  len, chunk_size, chunk_overlap)
    ELSE st

\* docs.append(doc) unless doc is None
MergeEmit(st, doc) == IF doc /= <<>> THEN [st EXCEPT !.docs = Append(@, doc)] ELSE st

\* current_doc.append(d); total += len(d)
MergePush(st, d) == [st EXCEPT !.cur = Append(@, d), !.total = @ + Len(d)]

\* the "if total + _len > chunk_size" part of one iteration of _merge_splits
MergeFlush(st, d, chunk_size, chunk_overlap) ==
    IF st.total + Len(d) > chunk_size /\ Len(st.cur) > 0
    THEN MergePop(MergeEmit(st, JoinDocs(st.cur)), Len(d), chunk_size, chunk_overlap)
    ELSE st

\* one iteration of "for d in splits" of _merge_splits
MergeStep(st, d, chunk_size, chunk_overlap) ==
    MergePush(MergeFlush(st, d, chunk_size, chunk_overlap), d)

\* iterations lo..hi of the loop, in order: the first half, then (MergeRest) the second
\* half from the state the first half leaves.  The test in MergeRest only fixes the
\* order of evaluation.
RECURSIVE MergeLoop(_, _, _, _, _, _)
RECURSIVE MergeRest(_, _, _, _, _, _)
MergeLoop(splits, lo, hi, st, chunk_size, chunk_overlap) ==
    IF lo > hi THEN st
    ELSE IF lo = hi THEN MergeStep(st, splits[lo], chunk_size, chunk_overlap)
    ELSE MergeRest(splits, (lo + hi) \div 2, hi,
                   MergeLoop(splits, lo, (lo + hi) \div 2, st, chunk_size, chunk_overlap),
                   chunk_size, chunk_overlap)

MergeRest(splits, mid, hi, left, chunk_size, chunk_overlap) ==
    IF left.total >= 0
    THEN MergeLoop(splits, mid + 1, hi, left, chunk_size, chunk_overlap)
    ELSE left

\* the end of _merge_splits: the last current_doc
MergeEnd(st) == MergeEmit(st, JoinDocs(st.cur)).docs

\* _merge_splits(splits, "")
MergeSplits(splits, chunk_size, chunk_overlap) ==
    MergeEnd(MergeLoop(splits, 1, Len(splits), [docs |-> <<>>, cur |-> <<>>, total |-> 0],
                       chunk_size, chunk_overlap))

\* index in seps of the separator _split_text picks for text
PickSeparator(text, seps) ==
    Min({i \in 1..Len(seps) : seps[i] = <<>> \/ Contains(text, seps[i])} \cup {Len(seps)})

\* the separators left for the recursive calls
NewSeparators(seps, k) == IF seps[k] = <<>> THEN <<>> ELSE SubSeq(seps, k + 1, Len(seps))

RECURSIVE SplitText(_, _, _, _)
RECURSIVE SplitLoop(_, _, _, _, _, _, _)
RECURSIVE SplitRest(_, _, _, _, _, _, _)

\* final_chunks.extend(_merge_splits(_good_splits)) when _good_splits is not empty
SplitFlush(st, chunk_size, chunk_overlap) ==
    IF st.good /= <<>>
    THEN [good |-> <<>>, final |-> st.final \o MergeSplits(st.good, chunk_size, chunk_overlap)]
    ELSE st

\* a split that is not shorter than chunk_size: kept as it is when no separator is
\* left, split further otherwise
SplitLong(st, s, new_separators, chunk_size, chunk_overlap) ==
    [st EXCEPT !.final = IF new_separators = <<>>
                         THEN Append(@, s)
                         ELSE @ \o SplitText(s, new_separators, chunk_size, chunk_overlap)]

\* one iteration of "for s in splits" of _split_text
SplitStep(st, s, new_separators, chunk_size, chunk_overlap) ==
    IF Len(s) < chunk_size
    THEN [st EXCEPT !.good = Append(@, s)]
    ELSE SplitLong(SplitFlush(st, chunk_size, chunk_overlap), s, new_separators,
                   chunk_size, chunk_overlap)

\* iterations lo..hi of the loop, in order (as MergeLoop)
SplitLoop(splits, lo, hi, st, new_separators, chunk_size, chunk_overlap) ==
    IF lo > hi THEN st
    ELSE IF lo = hi THEN SplitStep(st, splits[lo], new_separators, chunk_size, chunk_overlap)
    ELSE SplitRest(splits, (lo + hi) \div 2, hi,
                   SplitLoop(splits, lo, (lo + hi) \div 2, st, new_separators,
                             chunk_size, chunk_overlap),
                   new_separators, chunk_size, chunk_overlap)

SplitRest(splits, mid, hi, left, new_separators, chunk_size, chunk_overlap) ==
    IF Len(left.final) >= 0
    THEN SplitLoop(splits, mid + 1, hi, left, new_separators, chunk_size, chunk_overlap)
    ELSE left

\* _split_text once the separator (seps[k]) is picked
SplitOn(text, seps, k, splits, chunk_size, chunk_overlap) ==
    SplitFlush(SplitLoop(splits, 1, Len(splits), [good |-> <<>>, final |-> <<>>],
                         NewSeparators(seps, k), chunk_size, chunk_overlap),
               chunk_size, chunk_overlap).final

\* _split_text with the separator seps[k]
SplitBy(text, seps, k, chunk_size, chunk_overlap) ==
    SplitOn(text, seps, k, SplitWithRegex(text, seps[k]), chunk_size, chunk_overlap)

\* _split_text(text, separators)
SplitText(text, seps, chunk_size, chunk_overlap) ==
    SplitBy(text, seps, PickSeparator(text, seps), chunk_size, chunk_overlap)

\* the constructor of the splitter rejects these parameters (ValueError)
SplitterRejects(chunk_size, chunk_overlap) ==
    chunk_size <= 0 \/ chunk_overlap < 0 \/ chunk_overlap > chunk_size

\* VectorDB.chunk_text
chunk_text(text, chunk_size, chunk_overlap) == SplitText(text, separators, chunk_size, chunk_overlap)

-----------------------------------------------------------------------------
(* Collaborators: the embedding model and the Chroma collection *)

Abs(n) == IF n < 0 THEN 0 - n ELSE n

\* SentenceTransformer.encode of one text: a deterministic function of the text
Encode(text) == <<Len(text), Cardinality({i \in 1..Len(text) : text[i] = "a"})>>

\* the distance the collection computes between two embeddings
Distance(u, v) == Abs(u[1] - v[1]) + Abs(u[2] - v[2])

Ids(records) == {records[i].id : i \in 1..Len(records)}

HasDuplicateIds(records) == Cardinality(Ids(records)) < Len(records)

\* AddNew as an upsert: a record whose id is already stored replaces the stored record
AddNew_Upsert(coll, records, stored) ==
    [i \in 1..Len(coll) |->
        IF \E j \in 1..Len(records) : records[j].id = coll[i].id
        THEN records[CHOOSE j \in 1..Len(records) : records[j].id = coll[i].id]
        ELSE coll[i]]
    \o SelectSeq(records, LAMBDA r : r.id \notin stored)

\* collection.add(...) on a valid batch: a record whose id is already stored is ignored
\* (Chroma logs "Add of existing embedding ID" and keeps the stored record)
AddNew(coll, records, stored) == coll \o SelectSeq(records, LAMBDA r : r.id \notin stored)

CollectionAdd(coll, records) == AddNew(coll, records, Ids(coll))

\* collection.add raises on this batch (ids must be unique within one call of add)
CollectionAddRejects(records) == records = <<>> \/ HasDuplicateIds(records)

\* collection.count()
Count(coll) == Len(coll)

\* collection.query(query_embeddings=[e], n_results=n): the min(n, count) stored records
\* nearest to e, by non-decreasing distance (insertion order among equals)
CollectionQuery(coll, e, n) ==
    LET d     == <<>> \o [i \in 1..Len(coll) |-> Distance(e, coll[i].embedding)]
        rank  == <<>> \o [i \in 1..Len(coll) |->
                     Cardinality({j \in 1..Len(coll) : d[j] < d[i] \/ (d[j] = d[i] /\ j < i)})]
        k     == IF n < Len(coll) THEN n ELSE Len(coll)
        at    == <<>> \o [r \in 1..k |-> CHOOSE i \in 1..Len(coll) : rank[i] = r - 1]
    IN  [r \in 1..k |-> [id       |-> coll[at[r]].id,
                         document |-> coll[at[r]].document,
                         metadata |-> coll[at[r]].metadata,
                         distance |-> d[at[r]]]]

-----------------------------------------------------------------------------
(* VectorDB.add_documents *)

BATCH_SIZE == 500


NoMetadata == [k \in {} |-> <<>>]

\* doc.get("metadata", {})
MetadataOf(doc) == IF "metadata" \in DOMAIN doc THEN doc.metadata ELSE NoMetadata

HasSource(doc) == "source" \in DOMAIN MetadataOf(doc)

\* metadata.get("source", f"unknown_doc_{uuid.uuid4().hex[:6]}.txt")
SourceOf(doc, hex) ==
    IF HasSource(doc) THEN MetadataOf(doc)["source"]
    ELSE <<"u", "n", "k", "n", "o", "w", "n", "_", "d", "o", "c", "_">> \o hex \o <<".", "t", "x", "t">>

\* f"{source}_{current_chunk_index}"
ChunkId(source, current_chunk_index) == source \o <<"_">> \o Str(current_chunk_index)

\* {"source": source, "length": len(chunk_content), **metadata}
ChunkMetadata(source, chunk_content, metadata) ==
    [k \in {"source", "length"} \cup DOMAIN metadata |->
        IF k \in DOMAIN metadata THEN metadata[k]
        ELSE IF k = "source" THEN source
        ELSE Len(chunk_content)]

\* the loop "for i, chunk_content in enumerate(chunks)" numbering the chunks with the
\* index i of enumerate, which restarts with every document
AppendChunks_PerDocIndex(acc, metadata, source, chunks) ==
    [texts |-> acc.texts \o chunks,
     metas |-> acc.metas \o [i \in 1..Len(chunks) |-> ChunkMetadata(source, chunks[i], metadata)],
     ids   |-> acc.ids \o [i \in 1..Len(chunks) |-> ChunkId(source, i - 1)]]

\* the loop "for i, chunk_content in enumerate(chunks)": acc holds all_chunks_text,
\* all_metadatas, all_ids; current_chunk_index is Len(acc.ids)
AppendChunks(acc, metadata, source, chunks) ==
    [texts |-> acc.texts \o chunks,
     metas |-> acc.metas \o [i \in 1..Len(chunks) |-> ChunkMetadata(source, chunks[i], metadata)],
     ids   |-> acc.ids \o [i \in 1..Len(chunks) |-> ChunkId(source, Len(acc.ids) + i - 1)]]

\* the body of "for doc in documents" for one document
PrepareDoc(acc, doc, hex, chunk_size, chunk_overlap) ==
    AppendChunks(acc, MetadataOf(doc), SourceOf(doc, hex),
                 chunk_text(doc.content, chunk_size, chunk_overlap))

\* the loop "for doc in documents" over documents[k..]
RECURSIVE PrepareLoop(_, _, _, _, _, _)
PrepareLoop(documents, hexes, k, acc, chunk_size, chunk_overlap) ==
    IF k > Len(documents) THEN acc
    ELSE PrepareLoop(documents, hexes, k + 1,
                     PrepareDoc(acc, documents[k], hexes[k], chunk_size, chunk_overlap),
                     chunk_size, chunk_overlap)

Prepare(documents, hexes, chunk_size, chunk_overlap) ==
    PrepareLoop(documents, hexes, 1, [texts |-> <<>>, metas |-> <<>>, ids |-> <<>>],
                chunk_size, chunk_overlap)

\* math.ceil(n / BATCH_SIZE)
NumBatches(n) == (n + BATCH_SIZE - 1) \div BATCH_SIZE

\* texts[start_idx:end_idx] and the same slices of the other lists, as records with the
\* embeddings of the texts
SliceRecords(texts, metas, ids, start_idx, end_idx) ==
    <<>> \o [j \in 1..(end_idx - start_idx) |->
                [id        |-> ids[start_idx + j],
                 document  |-> texts[start_idx + j],
                 metadata  |-> metas[start_idx + j],
                 embedding |-> Encode(texts[start_idx + j])]]

\* min(a, b)
Least(a, b) == IF a < b THEN a ELSE b

\* BatchRecords with end_idx one too small: the last chunk of every batch is left out
BatchRecords_ShortSlice(texts, metas, ids, i) ==
    SliceRecords(texts, metas, ids, i * BATCH_SIZE, Least((i + 1) * BATCH_SIZE, Len(texts)) - 1)

\* the records of batch i (0-based): start_idx = i * BATCH_SIZE,
\* end_idx = min((i + 1) * BATCH_SIZE, len(all_chunks_text))
BatchRecords(texts, metas, ids, i) ==
    SliceRecords(texts, metas, ids, i * BATCH_SIZE, Least((i + 1) * BATCH_SIZE, Len(texts)))

\* the end of the preparation: nothing to insert (return), or the batch loop starts
StartBatches(prep) ==
    /\ all_chunks_text' = prep.texts
    /\ all_metadatas' = prep.metas
    /\ all_ids' = prep.ids
    /\ IF prep.texts = <<>>
       THEN addOutcome' = "returned" /\ pc' = "idle"
       ELSE addOutcome' = "running" /\ pc' = "adding"

\* add_documents up to the batch loop: chunk every document and collect the texts,
\* metadata and ids of the chunks.  When the splitter rejects the chunk parameters the
\* first chunk_text call raises and the exception leaves add_documents; when there is
\* no chunk add_documents returns.
AddDocuments(documents, chunk_size, chunk_overlap, hexes) ==
    /\ pc = "idle"
    /\ calls' = calls + 1
    /\ addCall' = [documents |-> documents, chunk_size |-> chunk_size,
                   chunk_overlap |-> chunk_overlap, hexes |-> hexes,
                   start_id |-> Count(collection)]
    /\ earlier' = IF addOutcome = "none" THEN earlier
                  ELSE Append(earlier, [call |-> addCall, outcome |-> addOutcome])
    /\ batch_i' = 0
    /\ batches' = <<>>
    /\ IF documents /= <<>> /\ SplitterRejects(chunk_size, chunk_overlap)
       THEN /\ all_chunks_text' = <<>> /\ all_metadatas' = <<>> /\ all_ids' = <<>>
            /\ addOutcome' = "raised:chunk_text"
            /\ pc' = "idle"
       ELSE StartBatches(Prepare(documents, hexes, chunk_size, chunk_overlap))
    /\ UNCHANGED <<collection, searchVars>>

\* collection.add of a batch the collection accepts
StoreBatch(records) ==
    /\ ~CollectionAddRejects(records)
    /\ collection' = CollectionAdd(collection, records)
    /\ batches' = Append(batches, records)

\* one iteration of the batch loop: embed the batch and add it to the collection; after
\* the last batch add_documents returns
AddBatch ==
    /\ pc = "adding"
    /\ StoreBatch(BatchRecords(all_chunks_text, all_metadatas, all_ids, batch_i))
    /\ batch_i' = batch_i + 1
    /\ IF batch_i + 1 = NumBatches(Len(all_chunks_text))
       THEN pc' = "idle" /\ addOutcome' = "returned"
       ELSE pc' = "adding" /\ addOutcome' = "running"
    /\ UNCHANGED <<all_chunks_text, all_metadatas, all_ids, addCall, earlier, calls, searchVars>>

\* an iteration of the batch loop in which embedding_model.encode raises: the exception
\* leaves add_documents
AddBatchEncodeRaises ==
    /\ pc = "adding"
    /\ pc' = "idle"
    /\ addOutcome' = "raised:encode"
    /\ UNCHANGED <<collection, all_chunks_text, all_metadatas, all_ids, batch_i, addCall,
                   batches, earlier, calls, searchVars>>

\* AddBatchStoreRaises undoing the earlier batches of the call before it raises
AddBatchStoreRaises_Rollback ==
    /\ pc = "adding"
    /\ pc' = "idle"
    /\ addOutcome' = "raised:add"
    /\ collection' = SubSeq(collection, 1, addCall.start_id)
    /\ UNCHANGED <<all_chunks_text, all_metadatas, all_ids, batch_i, addCall,
                   batches, earlier, calls, searchVars>>

\* an iteration of the batch loop in which collection.add raises (a store failure, or a
\* batch the collection rejects): nothing of the batch is stored and the exception
\* leaves add_documents
AddBatchStoreRaises ==
    /\ pc = "adding"
    /\ pc' = "idle"
    /\ addOutcome' = "raised:add"
    /\ UNCHANGED <<collection, all_chunks_text, all_metadatas, all_ids, batch_i, addCall,
                   batches, earlier, calls, searchVars>>

\* the running/last add_documents call ended with an exception
AddRaised == addOutcome \in {"raised:chunk_text", "raised:encode", "raised:add"}

-----------------------------------------------------------------------------
(* VectorDB.search *)

EmptyResult == [documents |-> <<>>, metadatas |-> <<>>, distances |-> <<>>, ids |-> <<>>]

\* FilterByThreshold with "<" for "<=": a neighbour at the threshold is dropped
FilterByThreshold_Strict(found, distance_threshold) ==
    LET kept == SelectSeq(found, LAMBDA n : n.distance < distance_threshold)
    IN  [documents |-> [i \in 1..Len(kept) |-> kept[i].document],
         metadatas |-> [i \in 1..Len(kept) |-> kept[i].metadata],
         distances |-> [i \in 1..Len(kept) |-> kept[i].distance],
         ids       |-> [i \in 1..Len(kept) |-> kept[i].id]]

\* FilterByThreshold inserting at the front of the four lists instead of appending
FilterByThreshold_Prepend(found, distance_threshold) ==
    LET kept == SelectSeq(found, LAMBDA n : n.distance <= distance_threshold)
        m    == Len(kept)
    IN  [documents |-> [i \in 1..m |-> kept[m + 1 - i].document],
         metadatas |-> [i \in 1..m |-> kept[m + 1 - i].metadata],
         distances |-> [i \in 1..m |-> kept[m + 1 - i].distance],
         ids       |-> [i \in 1..m |-> kept[m + 1 - i].id]]

\* FilterByThreshold with the test inverted: the far neighbours are the ones kept
FilterByThreshold_Inverted(found, distance_threshold) ==
    LET kept == SelectSeq(found, LAMBDA n : n.distance > distance_threshold)
    IN  [documents |-> [i \in 1..Len(kept) |-> kept[i].document],
         metadatas |-> [i \in 1..Len(kept) |-> kept[i].metadata],
         distances |-> [i \in 1..Len(kept) |-> kept[i].distance],
         ids       |-> [i \in 1..Len(kept) |-> kept[i].id]]

\* step 3 of search: the loop over zip(documents, metadatas, distances, ids)
FilterByThreshold(found, distance_threshold) ==
    LET kept == SelectSeq(found, LAMBDA n : n.distance <= distance_threshold)
    IN  [documents |-> [i \in 1..Len(kept) |-> kept[i].document],
         metadatas |-> [i \in 1..Len(kept) |-> kept[i].metadata],
         distances |-> [i \in 1..Len(kept) |-> kept[i].distance],
         ids       |-> [i \in 1..Len(kept) |-> kept[i].id]]

\* collection.query raises for these arguments (n_results must be a positive integer)
QueryRejects(n_results) == n_results <= 0

\* The result of a search in which a call raises does not depend on the query or on
\* n_results, so the two actions below take the threshold only; a query the collection
\* rejects (QueryRejects) is one of the failures of SearchQueryRaises.

\* search in which embedding_model.encode([query]) raises: caught, empty result
SearchEncodeRaises(distance_threshold) ==
    /\ pc = "idle"
    /\ searchCall' = [distance_threshold |-> distance_threshold, count |-> Count(collection),
                      fault |-> "encode"]
    /\ neighbours' = <<>>
    /\ searchResult' = EmptyResult
    /\ searchOutcome' = "returned"
    /\ UNCHANGED <<collection, pc, addVars, earlier, calls>>

\* SearchQueryRaises without the except clause: the exception leaves search
SearchQueryRaises_Propagates(distance_threshold) ==
    /\ pc = "idle"
    /\ searchCall' = [distance_threshold |-> distance_threshold, count |-> Count(collection),
                      fault |-> "query"]
    /\ neighbours' = <<>>
    /\ searchOutcome' = "raised"
    /\ UNCHANGED <<collection, pc, addVars, earlier, calls, searchResult>>

\* search in which collection.query raises (a store failure, or arguments the collection
\* rejects): caught, empty result
SearchQueryRaises(distance_threshold) ==
    /\ pc = "idle"
    /\ searchCall' = [distance_threshold |-> distance_threshold, count |-> Count(collection),
                      fault |-> "query"]
    /\ neighbours' = <<>>
    /\ searchResult' = EmptyResult
    /\ searchOutcome' = "returned"
    /\ UNCHANGED <<collection, pc, addVars, earlier, calls>>

\* search without failure: embed the query, ask the collection for the n_results nearest
\* chunks, keep those within the threshold
Search(query, n_results, distance_threshold) ==
    /\ pc = "idle"
    /\ ~QueryRejects(n_results)
    /\ LET found == CollectionQuery(collection, Encode(query), n_results)
       IN  /\ neighbours' = found
           /\ searchResult' = IF found = <<>> THEN EmptyResult
                              ELSE FilterByThreshold(found, distance_threshold)
    /\ searchCall' = [distance_threshold |-> distance_threshold, count |-> Count(collection),
                      fault |-> "none"]
    /\ searchOutcome' = "returned"
    /\ UNCHANGED <<collection, pc, addVars, earlier, calls>>

-----------------------------------------------------------------------------
(* src/src/app.py: configuration *)

\* an optional value (None, or a string): the empty sequence or a sequence of one string
None == <<>>
Some(v) == <<v>>

\* the truth value Python gives an optional string: None and "" are false
Truthy(v) == v /= None /\ v[1] /= <<>>

\* the environment without any credential
NoEnv == [GROQ_API_KEY |-> None, OPENAI_API_KEY |-> None, GOOGLE_API_KEY |-> None]

\* the defaults __init__ uses for what config.yaml does not give (the chunk parameters
\* scaled down)
DefaultConfig == [top_k |-> 5, distance_threshold |-> 0, chunk_size |-> 2, chunk_overlap |-> 1]

\* RAGAssistant._initialize_llm with OpenAI tried before Groq
InitializeLlm_OpenAIFirst(env) ==
    IF Truthy(env.OPENAI_API_KEY) THEN "openai"
    ELSE IF Truthy(env.GROQ_API_KEY) THEN "groq"
    ELSE IF Truthy(env.GOOGLE_API_KEY) THEN "google"
    ELSE "none"

\* RAGAssistant._initialize_llm: the if/elif chain over os.getenv; the provider whose
\* client is constructed and returned, "none" for None
InitializeLlm(env) ==
    IF Truthy(env.GROQ_API_KEY) THEN "groq"
    ELSE IF Truthy(env.OPENAI_API_KEY) THEN "openai"
    ELSE IF Truthy(env.GOOGLE_API_KEY) THEN "google"
    ELSE "none"

\* RAGAssistantInitWith without the check of the template
RAGAssistantInitWith_NoTemplateCheck(provider) ==
    /\ llm' = provider
    /\ constructed' = IF provider = "none" THEN <<>> ELSE <<provider>>
    /\ vector_db' = (provider /= "none")
    /\ chain' = (provider /= "none")
    /\ error' = IF provider = "none" THEN "ValueError: LLM initialization failed" ELSE "none"

\* RAGAssistant.__init__ from the LLM on, given the provider _initialize_llm returned:
\* no provider raises before the VectorDB is constructed, no template raises after it
RAGAssistantInitWith(provider) ==
    /\ llm' = provider
    /\ constructed' = IF provider = "none" THEN <<>> ELSE <<provider>>
    /\ vector_db' = (provider /= "none")
    /\ chain' = (provider /= "none" /\ Truthy(prompt_config))
    /\ error' = IF provider = "none" THEN "ValueError: LLM initialization failed"
                ELSE IF ~Truthy(prompt_config) THEN "ValueError: Prompt template not found"
                ELSE "none"

\* RAGAssistant.__init__
RAGAssistantInit == RAGAssistantInitWith(InitializeLlm(environ))

-----------------------------------------------------------------------------
(* src/src/app.py: load_documents *)

TXT == <<".", "t", "x", "t">>

\* str.endswith(suffix)
EndsWith(s, suffix) ==
    Len(s) >= Len(suffix) /\ SubSeq(s, Len(s) - Len(suffix) + 1, Len(s)) = suffix

\* "project_notes.txt"
SampleFilename ==
    <<"p", "r", "o", "j", "e", "c", "t", "_", "n", "o", "t", "e", "s">> \o TXT

\* the sample document load_documents writes (its text abbreviated)
SampleFile == [name |-> SampleFilename, content |-> <<"a", SP, "b", "b">>, readable |-> TRUE]

\* step 2: the .txt files of the directory
TxtFiles(dir) == SelectSeq(dir, LAMBDA f : EndsWith(f.name, TXT))

\* step 3: the directory after load_documents, with the sample file when it had no .txt
DirAfterLoad(dir) == IF TxtFiles(dir) = <<>> THEN Append(dir, SampleFile) ELSE dir

\* the dictionary appended for a file that was read
DocumentOfFile(f) == [content |-> f.content, metadata |-> [source |-> f.name]]

\* step 4: the loop over file_list; a file whose reading raises is left out
ReadDocuments(file_list) ==
    <<>> \o [i \in 1..Len(SelectSeq(file_list, LAMBDA f : f.readable)) |->
                DocumentOfFile(SelectSeq(file_list, LAMBDA f : f.readable)[i])]

\* load_documents(): the list it returns
LoadDocuments(dir) == ReadDocuments(TxtFiles(DirAfterLoad(dir)))

-----------------------------------------------------------------------------
(* src/src/app.py: RAGAssistant.invoke *)

Refusal ==
    <<"I apologize, I cannot find that specific information in the provided knowledge base.">>

\* metadata.get("source", "unknown_source.txt")
SourceForCitation(metadata) ==
    IF "source" \in DOMAIN metadata THEN metadata["source"]
    ELSE <<"u", "n", "k", "n", "o", "w", "n", "_", "s", "o", "u", "r", "c", "e">> \o TXT

\* step 3: the blocks of the context, one per (chunk, metadata) of zip, to be joined
\* with a blank line
Context(search_results) ==
    [i \in 1..Least(Len(search_results.documents), Len(search_results.metadatas)) |->
        <<"--- Document Source: ", SourceForCitation(search_results.metadatas[i]), " ---\n",
          search_results.documents[i]>>]

\* step 1: vector_db.search(query=input, n_results=k_chunks, distance_threshold=...),
\* with or without a failure of the embedding model or of the store inside it
Retrieve(input) ==
    \/ Search(input, config.top_k, config.distance_threshold)
    \/ SearchEncodeRaises(config.distance_threshold)
    \/ SearchQueryRaises(config.distance_threshold)

\* chain.invoke was not called
NotCalled == [called |-> FALSE, raises |-> FALSE, answer |-> "", e |-> ""]

\* step 2, taken: the refusal phrase is returned
Refuse ==
    /\ reply' = Refusal
    /\ invokeOutcome' = "returned"
    /\ llm_outcome' = NotCalled
    /\ UNCHANGED <<llm_calls, llm_input>>

\* Generate without the except clause: a failure of chain.invoke leaves invoke
Generate_Propagates(input, outcome) ==
    /\ llm_calls' = llm_calls + 1
    /\ llm_input' = [context |-> Context(searchResult'), question |-> input]
    /\ llm_outcome' = outcome
    /\ IF outcome.raises
       THEN reply' = reply /\ invokeOutcome' = "raised"
       ELSE reply' = <<outcome.answer>> /\ invokeOutcome' = "returned"

\* steps 3 and 4: chain.invoke on the context and the question; outcome is what the
\* LLM does (an answer, or an exception e)
Generate(input, outcome) ==
    /\ llm_calls' = llm_calls + 1
    /\ llm_input' = [context |-> Context(searchResult'), question |-> input]
    /\ llm_outcome' = outcome
    /\ reply' = IF outcome.raises
                THEN <<"An error occurred during LLM generation: ", outcome.e>>
                ELSE <<outcome.answer>>
    /\ invokeOutcome' = "returned"

\* Answer without the refusal check: the LLM is called on an empty context too
Answer_NoRefusalCheck(input, outcome) == Generate(input, outcome)

\* invoke after the retrieval
Answer(input, outcome) ==
    IF searchResult'.documents = <<>> THEN Refuse ELSE Generate(input, outcome)

\* RAGAssistant.invoke(input)
Invoke(input, outcome) ==
    /\ Retrieve(input)
    /\ invocations' = invocations + 1
    /\ Answer(input, outcome)

-----------------------------------------------------------------------------
(* src/src/app.py: main *)

UpperCase == <<"A", "B", "C", "D", "E", "F", "G", "H", "I", "J", "K", "L", "M",
               "N", "O", "P", "Q", "R", "S", "T", "U", "V", "W", "X", "Y", "Z">>
LowerCase == <<"a", "b", "c", "d", "e", "f", "g", "h", "i", "j", "k", "l", "m",
               "n", "o", "p", "q", "r", "s", "t", "u", "v", "w", "x", "y", "z">>

LowerChar(c) ==
    IF \E i \in 1..26 : UpperCase[i] = c
    THEN LowerCase[CHOOSE i \in 1..26 : UpperCase[i] = c]
    ELSE c

\* str.lower()
Lower(s) == [i \in 1..Len(s) |-> LowerChar(s[i])]

QUIT == <<"q", "u", "i", "t">>
EXIT == <<"e", "x", "i", "t">>

\* question.lower() in ['quit', 'exit'], compared without lower()
IsQuit_CaseSensitive(q) == q \in {QUIT, EXIT}

\* question.lower() in ['quit', 'exit']
IsQuit(q) == Lower(q) \in {QUIT, EXIT}

\* the state of main that the loop leaves alone
mainSetup == <<environ, prompt_config, config, data_dir, error, llm, constructed, vector_db,
               chain, sample_docs>>

\* main up to "assistant = RAGAssistant()": an exception of the constructor is caught by
\* the except clause of main, which prints the troubleshooting text and ends main
MainConstruct ==
    /\ mainPc = "start"
    /\ RAGAssistantInit
    /\ mainPc' = IF error' = "none" THEN "load" ELSE "fatal"
    /\ UNCHANGED <<environ, prompt_config, config, data_dir, sample_docs, question, reply,
                   invokeOutcome, llm_calls, llm_input, llm_outcome, invocations, reads>>
    /\ UNCHANGED <<collection, pc, addVars, earlier, calls, searchVars, otherVars>>

\* "sample_docs = load_documents()", and the return of main when there is no document
MainLoad ==
    /\ mainPc = "load"
    /\ sample_docs' = LoadDocuments(data_dir)
    /\ data_dir' = DirAfterLoad(data_dir)
    /\ mainPc' = IF sample_docs' = <<>> THEN "returned" ELSE "ingest"
    /\ UNCHANGED <<environ, prompt_config, config, error, llm, constructed, vector_db, chain,
                   question, reply, invokeOutcome, llm_calls, llm_input, llm_outcome, invocations, reads>>
    /\ UNCHANGED <<collection, pc, addVars, earlier, calls, searchVars, otherVars>>

\* where main is after a step of add_documents: still in it, in the loop when it
\* returned, in the except clause when it raised
AfterIngestStep ==
    /\ mainPc' = IF pc' = "adding" THEN "ingesting"
                 ELSE IF addOutcome' = "returned" THEN "loop" ELSE "fatal"
    /\ error' = IF pc' = "idle" /\ addOutcome' /= "returned" THEN addOutcome' ELSE error
    /\ UNCHANGED <<environ, prompt_config, config, data_dir, llm, constructed, vector_db,
                   chain, sample_docs, question, reply, invokeOutcome, llm_calls, llm_input,
                   llm_outcome, invocations, reads, otherVars>>

\* "assistant.add_documents(sample_docs)", up to the batch loop
MainIngest(hexes) ==
    /\ mainPc = "ingest"
    /\ AddDocuments(sample_docs, config.chunk_size, config.chunk_overlap, hexes)
    /\ AfterIngestStep

\* an iteration of the batch loop of that add_documents
MainIngestBatch ==
    /\ mainPc = "ingesting"
    /\ AddBatch \/ AddBatchEncodeRaises \/ AddBatchStoreRaises
    /\ AfterIngestStep

\* an iteration of the loop that reads a blank line: continue
MainReadBlank(line) ==
    /\ mainPc = "loop"
    /\ Strip(line) = <<>>
    /\ question' = Strip(line)
    /\ reads' = reads + 1
    /\ UNCHANGED <<mainSetup, mainPc, reply, invokeOutcome, llm_calls, llm_input, llm_outcome,
                   invocations>>
    /\ UNCHANGED <<collection, pc, addVars, earlier, calls, searchVars, otherVars>>

\* an iteration of the loop that reads quit or exit: done = True, and the loop ends
MainReadQuit(line) ==
    /\ mainPc = "loop"
    /\ Strip(line) /= <<>>
    /\ IsQuit(Strip(line))
    /\ question' = Strip(line)
    /\ reads' = reads + 1
    /\ mainPc' = "ended"
    /\ UNCHANGED <<mainSetup, reply, invokeOutcome, llm_calls, llm_input, llm_outcome,
                   invocations>>
    /\ UNCHANGED <<collection, pc, addVars, earlier, calls, searchVars, otherVars>>

\* an iteration of the loop that reads a question: the assistant is invoked and its
\* reply printed; an exception of invoke would be caught by the except clause of main
MainAsk(line, outcome) ==
    /\ mainPc = "loop"
    /\ Strip(line) /= <<>>
    /\ ~IsQuit(Strip(line))
    /\ question' = Strip(line)
    /\ reads' = reads + 1
    /\ Invoke(Strip(line), outcome)
    /\ mainPc' = IF invokeOutcome' = "raised" THEN "fatal" ELSE "loop"
    /\ error' = IF invokeOutcome' = "raised" THEN outcome.e ELSE error
    /\ UNCHANGED <<environ, prompt_config, config, data_dir, llm, constructed, vector_db,
                   chain, sample_docs, otherVars>>

-----------------------------------------------------------------------------
(* src/src/pdf_processor.py *)

(* A file is a record: name (its base name), dir (the directory part of its path),   *)
(* exists, and for a text file content and readable; for a PDF what each library     *)
(* finds in it: opens (whether the library opens the file), info (the document       *)
(* information dictionary), pages.  A page gives tables and text to pdfplumber and   *)
(* text to PyPDF2, or raises.  The matches of the regular expressions of             *)
(* _extract_text_metadata are given with the file (date, period): the expressions    *)
(* themselves are not modelled.                                                      *)

PDF == <<".", "p", "d", "f">>

\* os.path.join(dir, name): the path of a file
PathOf(f) == IF f.dir = <<>> THEN f.name ELSE f.dir \o <<"/">> \o f.name

\* os.path.basename(path): what follows the last "/"
Basename(path) ==
    SubSeq(path, Max({i \in 1..Len(path) : path[i] = "/"} \cup {0}) + 1, Len(path))

\* os.path.splitext(path)[1].lower(): the extension of the base name, from its last dot
\* (a leading dot is not an extension)
ExtensionFrom(name, dots) ==
    IF dots = {} THEN <<>> ELSE Lower(SubSeq(name, Max(dots), Len(name)))

Extension(path) ==
    ExtensionFrom(Basename(path), {i \in 2..Len(Basename(path)) : Basename(path)[i] = "."})

\* dict.update: the entries of m with those of n over them
Update(m, n) ==
    [k \in DOMAIN m \cup DOMAIN n |-> IF k \in DOMAIN n THEN n[k] ELSE m[k]]

\* info.get(key, "")
GetOrEmpty(info, key) == IF key \in DOMAIN info THEN info[key] ELSE <<>>

\* "\n--- Page {page_num} ---\n"
PageMarker(page_num) ==
    <<NL, "-", "-", "-", SP, "P", "a", "g", "e", SP>> \o Str(page_num)
        \o <<SP, "-", "-", "-", NL>>

\* "\n--- Page {page_num} (extraction error) ---\n"
PageErrorMarker(page_num) ==
    <<NL, "-", "-", "-", SP, "P", "a", "g", "e", SP>> \o Str(page_num)
        \o <<SP, "(", "e", "x", "t", "r", "a", "c", "t", "i", "o", "n", SP,
             "e", "r", "r", "o", "r", ")", SP, "-", "-", "-", NL>>

\* a cell of a table: None gives "", a string gives itself
CellText(cell) == IF cell = <<>> THEN <<>> ELSE cell[1]

\* " | ".join(row_values)
RowText(row) == JoinWith(<<SP, "|", SP>>, [c \in 1..Len(row) |-> CellText(row[c])])

\* _table_to_text(table)
TableToText(table) == JoinWith(<<NL>>, [r \in 1..Len(table) |-> RowText(table[r])])

\* the loop over the tables of a page: a table whose conversion raises is passed over
TableParts(tables) ==
    [i \in 1..Len(SelectSeq(tables, LAMBDA t : ~t.malformed)) |->
        TableToText(SelectSeq(tables, LAMBDA t : ~t.malformed)[i].rows)]

\* the text of a page and its marker, or the error marker when extract_text raises
TextParts(raises, text, page_num) ==
    IF raises THEN <<PageErrorMarker(page_num)>>
    ELSE IF text = <<>> THEN <<PageMarker(page_num)>>
    ELSE <<text, PageMarker(page_num)>>

\* the body of the page loop of _extract_with_pdfplumber: what it appends to
\* content_parts
PlumberPageParts(page, page_num) ==
    IF page.tables_raise THEN <<PageErrorMarker(page_num)>>
    ELSE TableParts(page.tables) \o TextParts(page.text_raises, page.text, page_num)

\* the page loop of _extract_with_pdfplumber
PlumberParts(pages) == Concat([n \in 1..Len(pages) |-> PlumberPageParts(pages[n], n)])

\* the metadata _extract_with_pdfplumber collects
PlumberMetadata(f) ==
    IF DOMAIN f.info = {} THEN [total_pages |-> Len(f.pages)]
    ELSE [total_pages |-> Len(f.pages),
          pdf_title   |-> GetOrEmpty(f.info, "Title"),
          pdf_author  |-> GetOrEmpty(f.info, "Author"),
          pdf_subject |-> GetOrEmpty(f.info, "Subject"),
          pdf_creator |-> GetOrEmpty(f.info, "Creator")]

\* _extract_with_pdfplumber(file_path): it raises when the PDF cannot be opened
ExtractWithPdfplumber(f) ==
    IF ~f.plumber_opens THEN [raises |-> TRUE, content |-> <<>>, metadata |-> NoMetadata]
    ELSE [raises |-> FALSE, content |-> JoinWith(<<NL>>, PlumberParts(f.pages)),
          metadata |-> PlumberMetadata(f)]

\* the body of the page loop of _extract_with_pypdf2
PyPdf2PageParts(page, page_num) == TextParts(page.pypdf2_raises, page.pypdf2_text, page_num)

\* the metadata _extract_with_pypdf2 collects
PyPdf2Metadata(f) ==
    IF DOMAIN f.info = {} THEN [total_pages |-> Len(f.pages)]
    ELSE [total_pages |-> Len(f.pages),
          pdf_title   |-> GetOrEmpty(f.info, "Title"),
          pdf_author  |-> GetOrEmpty(f.info, "Author"),
          pdf_subject |-> GetOrEmpty(f.info, "Subject")]

\* _extract_with_pypdf2(file_path)
ExtractWithPyPdf2(f) ==
    IF ~f.pypdf2_opens THEN [raises |-> TRUE, content |-> <<>>, metadata |-> NoMetadata]
    ELSE [raises |-> FALSE,
          content |-> JoinWith(<<NL>>, Concat([n \in 1..Len(f.pages) |->
                                                  PyPdf2PageParts(f.pages[n], n)])),
          metadata |-> PyPdf2Metadata(f)]

\* the words _extract_text_metadata looks for in content.lower()
CENSUS == <<"c", "e", "n", "s", "u", "s">>
SURVEY == <<"s", "u", "r", "v", "e", "y">>
REPORT == <<"r", "e", "p", "o", "r", "t">>
KNBS == <<"k", "n", "b", "s">>
BUREAU == <<"n", "a", "t", "i", "o", "n", "a", "l", SP, "b", "u", "r", "e", "a", "u", SP, "o", "f", SP, "s", "t", "a", "t", "i", "s", "t", "i", "c", "s">>

\* the "report_type" of a content in lower case
ReportType(lower) ==
    IF Contains(lower, CENSUS) THEN "Census"
    ELSE IF Contains(lower, SURVEY) THEN "Survey"
    ELSE IF Contains(lower, REPORT) THEN "Report"
    ELSE "Document"

\* the entry m[key] = v[1] when the optional value v is there
WithOptional(m, key, v) == IF v = <<>> THEN m ELSE Update(m, [k \in {key} |-> v[1]])

\* the "organization" entry, for a content in lower case
WithOrganization(m, lower) ==
    IF Contains(lower, KNBS) \/ Contains(lower, BUREAU)
    THEN Update(m, [organization |-> "KNBS"])
    ELSE m

\* _extract_text_metadata(content, filename); date and period are the matches of the
\* date patterns and of the period pattern in content
TextMetadataOf(lower, filename, date, period) ==
    WithOrganization(
        WithOptional(WithOptional([source |-> filename, report_type |-> ReportType(lower)],
                                  "publication_date", date),
                     "data_period", period),
        lower)

ExtractTextMetadata(content, filename, f) ==
    TextMetadataOf(Lower(content), filename, f.date, f.period)

\* _count_pages(file_path)
CountPages(f, avail) == IF avail.pypdf2 /\ f.pypdf2_opens THEN Len(f.pages) ELSE 1

\* the state of _process_pdf after an extraction method was tried: content (None, or the
\* text), metadata, and the methods tried so far
AfterExtraction(st, method, x) ==
    IF x.raises
    THEN [content |-> None, metadata |-> st.metadata, tried |-> Append(st.tried, method)]
    ELSE [content |-> Some(x.content), metadata |-> x.metadata,
          tried |-> Append(st.tried, method)]

\* "if PDFPLUMBER_AVAILABLE: try ... except"
TryPdfplumber(st, f, avail) ==
    IF avail.pdfplumber THEN AfterExtraction(st, "pdfplumber", ExtractWithPdfplumber(f)) ELSE st

\* TryPyPdf2 without the test of content: PyPDF2 is tried whenever it is installed
TryPyPdf2_Always(st, f, avail) ==
    IF avail.pypdf2 THEN AfterExtraction(st, "PyPDF2", ExtractWithPyPdf2(f)) ELSE st

\* "if content is None and PYPDF2_AVAILABLE: try ... except"
TryPyPdf2(st, f, avail) ==
    IF st.content = None /\ avail.pypdf2
    THEN AfterExtraction(st, "PyPDF2", ExtractWithPyPdf2(f))
    ELSE st

\* what a call on one file gives: the exception that leaves it ("none": it returns doc),
\* and the extraction methods it tried
Raised(exception, tried) ==
    [raises |-> exception, doc |-> [content |-> <<>>, metadata |-> NoMetadata], tried |-> tried]

Returned(content, metadata, tried) ==
    [raises |-> "none", doc |-> [content |-> content, metadata |-> metadata], tried |-> tried]

\* WithFileEntries without "source": the source is left to the content-based metadata
WithFileEntries_NoSource(metadata, f, filename, avail) ==
    Update([total_pages |-> CountPages(f, avail)], Update(metadata, [file_size_kb |-> f.size]))

\* the metadata with the entries written last: source, file_size_kb (the size in bytes,
\* to be divided by 1024), and total_pages when it is not there yet
WithFileEntries(metadata, f, filename, avail) ==
    Update([total_pages |-> CountPages(f, avail)],
           Update(metadata, [source |-> filename, file_size_kb |-> f.size]))

\* the metadata with the content-based metadata over it, when asked for
WithContentMetadata(metadata, content, f, filename, extract_metadata) ==
    IF extract_metadata THEN Update(metadata, ExtractTextMetadata(content, filename, f))
    ELSE metadata

\* _process_pdf after the extraction
FinishPdf(st, f, filename, extract_metadata, avail) ==
    IF st.content = None THEN Raised("RuntimeError", st.tried)
    ELSE Returned(st.content[1],
                  WithFileEntries(WithContentMetadata(st.metadata, st.content[1], f, filename,
                                                      extract_metadata),
                                  f, filename, avail),
                  st.tried)

\* _process_pdf(file_path, filename, extract_metadata)
ProcessPdf(f, filename, extract_metadata, avail) ==
    FinishPdf(TryPyPdf2(TryPdfplumber([content |-> None, metadata |-> NoMetadata,
                                       tried |-> <<>>], f, avail),
                        f, avail),
              f, filename, extract_metadata, avail)

\* _process_text_file(file_path, filename)
ProcessTextFile(f, filename) ==
    IF ~f.readable THEN Raised("OSError", <<>>)
    ELSE Returned(f.content, ExtractTextMetadata(f.content, filename, f), <<>>)

\* process_pdf_file(file_path, extract_metadata) on the path of f
ProcessPdfFileAt(f, file_ext, filename, extract_metadata, avail) ==
    IF ~f.exists THEN Raised("FileNotFoundError", <<>>)
    ELSE IF file_ext = TXT THEN ProcessTextFile(f, filename)
    ELSE IF file_ext = PDF THEN ProcessPdf(f, filename, extract_metadata, avail)
    ELSE Raised("ValueError", <<>>)

ProcessPdfFile(f, extract_metadata, avail) ==
    ProcessPdfFileAt(f, Extension(PathOf(f)), Basename(PathOf(f)), extract_metadata, avail)

\* the documents of the calls that returned, in order
DocumentsOf(results) ==
    <<>> \o [i \in 1..Len(SelectSeq(results, LAMBDA r : r.raises = "none")) |->
                SelectSeq(results, LAMBDA r : r.raises = "none")[i].doc]

\* directory_path.glob("*.pdf") followed by directory_path.glob("*.txt")
GlobPdfThenTxt(files) ==
    SelectSeq(files, LAMBDA f : EndsWith(f.name, PDF))
        \o SelectSeq(files, LAMBDA f : EndsWith(f.name, TXT))

\* the results of process_pdf_file on every file of a list
ProcessEach(files, avail) ==
    <<>> \o [i \in 1..Len(files) |-> ProcessPdfFile(files[i], TRUE, avail)]

\* ProcessDirectory in which the first file that fails ends the loop
ProcessDirectory_StopAtFailure(files, avail) ==
    DocumentsOf(SubSeq(ProcessEach(GlobPdfThenTxt(files), avail), 1,
                       Min({i \in 1..Len(GlobPdfThenTxt(files)) :
                               ProcessEach(GlobPdfThenTxt(files), avail)[i].raises /= "none"}
                           \cup {Len(GlobPdfThenTxt(files)) + 1}) - 1))

\* process_directory(directory_path) on a directory that exists, with these files
ProcessDirectory(files, avail) == DocumentsOf(ProcessEach(GlobPdfThenTxt(files), avail))

\* VectorDB._process_file_paths: what the loop appends for one path, if anything
ProcessFilePath(f, path, avail) ==
    IF EndsWith(path, PDF)
    THEN IF avail.pdf_support THEN ProcessPdfFile(f, TRUE, avail) ELSE Raised("skipped", <<>>)
    ELSE IF EndsWith(path, TXT)
    THEN IF f.exists /\ f.readable
         THEN Returned(f.content, [source |-> Basename(path)], <<>>)
         ELSE Raised("OSError", <<>>)
    ELSE Raised("skipped", <<>>)

\* VectorDB._process_file_paths(file_paths)
ProcessFilePaths(files, avail) ==
    DocumentsOf(<<>> \o [i \in 1..Len(files) |->
                            ProcessFilePath(files[i], PathOf(files[i]), avail)])

-----------------------------------------------------------------------------
(* The document sources, called on their own *)

dbVars == <<collection, pc, addVars, earlier, calls, searchVars>>

\* the end of a call on one file
OneFileResult(r) ==
    /\ pdf_result' = IF r.raises = "none" THEN <<r.doc>> ELSE <<>>
    /\ pdf_outcome' = IF r.raises = "none" THEN "returned" ELSE r.raises
    /\ pdf_tried' = r.tried

\* PDFProcessor.process_pdf_file(path of f, extract_metadata)
ProcessPdfFileCall(f, extract_metadata) ==
    /\ pdf_call' = [op |-> "process_pdf_file", files |-> <<f>>,
                    extract_metadata |-> extract_metadata]
    /\ OneFileResult(ProcessPdfFile(f, extract_metadata, available))
    /\ UNCHANGED <<available, dbVars, appVars, chunkVars>>

\* PDFProcessor.process_directory on a directory that exists and holds these files
ProcessDirectoryCall(files) ==
    /\ pdf_call' = [op |-> "process_directory", files |-> files, extract_metadata |-> TRUE]
    /\ pdf_result' = ProcessDirectory(files, available)
    /\ pdf_outcome' = "returned"
    /\ pdf_tried' = <<>>
    /\ UNCHANGED <<available, dbVars, appVars, chunkVars>>

\* PDFProcessor.process_directory on a path that does not exist
ProcessDirectoryMissing ==
    /\ pdf_call' = [op |-> "process_directory", files |-> <<>>, extract_metadata |-> TRUE]
    /\ pdf_result' = <<>>
    /\ pdf_outcome' = "FileNotFoundError"
    /\ pdf_tried' = <<>>
    /\ UNCHANGED <<available, dbVars, appVars, chunkVars>>

\* VectorDB._process_file_paths(paths of files)
ProcessFilePathsCall(files) ==
    /\ pdf_call' = [op |-> "_process_file_paths", files |-> files, extract_metadata |-> TRUE]
    /\ pdf_result' = ProcessFilePaths(files, available)
    /\ pdf_outcome' = "returned"
    /\ pdf_tried' = <<>>
    /\ UNCHANGED <<available, dbVars, appVars, chunkVars>>

\* load_documents() on a data directory that holds these files
LoadDocumentsCall(files) ==
    /\ pdf_call' = [op |-> "load_documents", files |-> files, extract_metadata |-> FALSE]
    /\ pdf_result' = LoadDocuments(files)
    /\ pdf_outcome' = "returned"
    /\ pdf_tried' = <<>>
    /\ UNCHANGED <<available, dbVars, appVars, chunkVars>>

\* VectorDB.chunk_text(text, chunk_size, chunk_overlap), once, on the arguments drawn at
\* the start: the splitter's constructor raises ValueError on parameters it rejects
ChunkText ==
    /\ chunk_outcome = "none"
    /\ IF SplitterRejects(chunk_call.chunk_size, chunk_call.chunk_overlap)
       THEN /\ chunk_result' = <<>>
            /\ chunk_outcome' = "ValueError"
       ELSE /\ chunk_result' = chunk_text(chunk_call.text, chunk_call.chunk_size,
                                         chunk_call.chunk_overlap)
            /\ chunk_outcome' = "returned"
    /\ UNCHANGED <<chunk_call, pdfVars, dbVars, appVars>>

-----------------------------------------------------------------------------
(* Inputs *)

\* length of the long document (more than two batches of chunks at chunk_size 1)
BigLen == 1000

SrcA  == <<"a">>
SrcA1 == <<"a", "_", "1">>

DocAB    == [content |-> <<"a", SP, "b">>, metadata |-> [source |-> SrcA]]
DocAB2   == [content |-> <<"a", "b">>, metadata |-> [source |-> SrcA]]
DocBlank == [content |-> <<SP>>, metadata |-> [source |-> SrcA1]]
DocLong  == [content |-> <<"b", "b", "a", "b", "b", "a", "b", "b", "a", "b", "b", "a">>,
             metadata |-> [source |-> SrcA1]]
DocNoSrc == [content |-> <<"b", NL, NL, "a">>, metadata |-> [length |-> 99, page_count |-> 2]]
DocBare  == [content |-> <<"b", "a">>]
DocBig   == [content |-> [i \in 1..BigLen |-> "a"], metadata |-> [source |-> SrcA]]

\* documents and chunk parameters (chunk_size, chunk_overlap) of the three
\* specifications; the splitter rejects <<2, 3>>
DocLists == { <<DocAB, DocBlank, DocAB2>>, <<DocLong>> }
ChunkParams == { <<1, 0>>, <<2, 1>>, <<2, 3>> }

AddDocLists ==
    { <<>>, <<DocAB>>, <<DocAB, DocBlank, DocAB2>>, <<DocBlank>>, <<DocLong, DocAB2>>,
      <<DocBare, DocNoSrc>> }
AddChunkParams == { <<1, 0>>, <<2, 1>>, <<2, 3>> }

BigDocLists == { <<DocBig>>, <<DocAB2, DocBig>> }
BigChunkParams == { <<1, 0>> }

\* number of add_documents calls explored by each specification
MaxCalls == 2
MaxAddCalls == 2
MaxBatchCalls == 2

Hex1 == <<"0", "a", "1", "b", "2", "c">>
Hex2 == <<"d", "3", "e", "4", "f", "5">>

\* the uuid4 hex prefixes drawn for the documents of a call (only documents without a
\* source use theirs)
HexChoices(documents) ==
    {h \in [1..Len(documents) -> {Hex1, Hex2}] :
        \A i \in 1..Len(documents) : HasSource(documents[i]) => h[i] = Hex1}

Queries == { <<"a">>, <<"b">> }
MaxNResults == 3
NResultsChoices == {1, MaxNResults}
MaxThreshold == 1
Thresholds == 0..MaxThreshold

\* the values of a credential: unset, set to the empty string, set to a key
EnvValues == {None, Some(<<>>), Some(<<"k">>)}
Environments ==
    [GROQ_API_KEY : EnvValues, OPENAI_API_KEY : EnvValues, GOOGLE_API_KEY : EnvValues]

\* the environments of the sessions: one credential, the one of lowest priority
SessionEnvironments ==
    { [GROQ_API_KEY |-> None, OPENAI_API_KEY |-> Some(<<>>), GOOGLE_API_KEY |-> Some(<<"k">>)] }

\* the template of prompt_config.yaml: missing, empty, or a template
Templates == {None, Some(<<>>), Some(<<"t">>)}

FileA == [name |-> <<"a">> \o TXT, content |-> <<"a", SP, "b">>, readable |-> TRUE]
FileB == [name |-> <<"b", ".", "p", "d", "f">>, content |-> <<"b">>, readable |-> TRUE]
FileC == [name |-> <<"c">> \o TXT, content |-> <<"b", "b">>, readable |-> FALSE]
FileD == [name |-> <<"d">> \o TXT, content |-> <<"a", "b">>, readable |-> TRUE]

\* data directories: some files unreadable or not .txt; none; only an unreadable one
DataDirs == { <<FileA, FileB, FileC, FileD>>, <<>>, <<FileC>> }
SessionDataDirs == { <<FileA, FileB, FileC, FileD>>, <<FileB>> }

\* config.yaml: the splitter rejects the chunk parameters of the second one
StartupConfigs ==
    { [top_k |-> 3, distance_threshold |-> 1, chunk_size |-> 1, chunk_overlap |-> 0],
      [top_k |-> 3, distance_threshold |-> 1, chunk_size |-> 2, chunk_overlap |-> 3] }
SessionConfigs ==
    { [top_k |-> k, distance_threshold |-> t, chunk_size |-> 1, chunk_overlap |-> 0] :
          k \in {0, MaxNResults}, t \in Thresholds }

\* the lines typed at the prompt
Lines ==
    { <<>>, <<SP>>, QUIT, <<SP, "Q", "u", "i", "t", SP>>, <<"E", "X", "I", "T">>,
      <<"a">>, <<"b", "b">>, <<"q", "u", "i", "t", "s">> }

\* what the LLM does with a prompt: it answers (possibly with the refusal phrase
\* itself), or the call raises
LlmOutcomes ==
    { [called |-> TRUE, raises |-> FALSE, answer |-> "The answer [a.txt].", e |-> ""],
      [called |-> TRUE, raises |-> FALSE, answer |-> Refusal[1], e |-> ""],
      [called |-> TRUE, raises |-> TRUE, answer |-> "", e |-> "Connection error."] }

\* number of lines read in a session, and in the runs that explore the start-up
MaxReads == 2
MaxStartupReads == 1

\* a text file and a PDF of the directory "d"
TextFile(name, content, readable, size) ==
    [name |-> name, dir |-> <<"d">>, exists |-> TRUE, readable |-> readable,
     content |-> content, size |-> size, date |-> None, period |-> None,
     info |-> NoMetadata, plumber_opens |-> FALSE, pypdf2_opens |-> FALSE, pages |-> <<>>]

PdfFile(name, plumber_opens, pypdf2_opens, info, pages, size) ==
    [name |-> name, dir |-> <<"d">>, exists |-> TRUE, readable |-> TRUE,
     content |-> <<>>, size |-> size, date |-> Some(<<"M", "a", "y", SP, "2", "0", "2", "4">>),
     period |-> None, info |-> info, plumber_opens |-> plumber_opens,
     pypdf2_opens |-> pypdf2_opens, pages |-> pages]

\* pages: one that both libraries read; one on which both raise; one with two tables (one
\* malformed) whose text pdfplumber cannot extract; one without text
PageOf(text) ==
    [tables_raise |-> FALSE, tables |-> <<>>, text_raises |-> FALSE, text |-> text,
     pypdf2_raises |-> FALSE, pypdf2_text |-> text]
PageBad ==
    [tables_raise |-> TRUE, tables |-> <<>>, text_raises |-> FALSE, text |-> <<>>,
     pypdf2_raises |-> TRUE, pypdf2_text |-> <<>>]
PageTables ==
    [tables_raise |-> FALSE,
     tables |-> << [malformed |-> TRUE, rows |-> <<>>],
                   [malformed |-> FALSE, rows |-> << <<Some(<<"x">>), None>>,
                                                     <<Some(<<"y">>), Some(<<"z">>)>> >>] >>,
     text_raises |-> TRUE, text |-> <<>>,
     pypdf2_raises |-> FALSE, pypdf2_text |-> <<"t">>]
PageBlank == PageOf(<<>>)

FileTxt == TextFile(<<"a">> \o TXT, <<"K", "N", "B", "S", SP, "R", "e", "p", "o", "r", "t">>, TRUE, 11)
FileTxtUnreadable == TextFile(<<"c">> \o TXT, <<"b">>, FALSE, 12)
FileTxtSurvey == TextFile(<<"s", ".", "v", "2">> \o TXT, <<"s", "u", "r", "v", "e", "y">>, TRUE, 13)
FileCsv == TextFile(<<"n", ".", "c", "s", "v">>, <<"b">>, TRUE, 14)
FilePdfPages ==
    PdfFile(<<"p">> \o PDF, TRUE, TRUE, [Title |-> <<"T">>, source |-> <<"o">>],
            <<PageOf(<<"c", "e", "n", "s", "u", "s">>), PageBad, PageTables, PageOf(<<"w">>)>>, 15)
FilePdfFallback ==
    PdfFile(<<"q">> \o PDF, FALSE, TRUE, [Author |-> <<"A">>], <<PageBlank, PageTables>>, 16)
FilePdfBroken == PdfFile(<<"x">> \o PDF, FALSE, FALSE, NoMetadata, <<PageBad>>, 17)
FilePdfUpper == PdfFile(<<"u", ".", "P", "D", "F">>, TRUE, TRUE, NoMetadata, <<PageOf(<<"v">>)>>, 18)
FilePdfMissing ==
    [PdfFile(<<"m">> \o PDF, TRUE, TRUE, NoMetadata, <<>>, 19) EXCEPT !.exists = FALSE]
FileTxtTop == [TextFile(<<"e">> \o TXT, <<"r">>, TRUE, 20) EXCEPT !.dir = <<>>]
\* a PDF without pages: pdfplumber gives the content ""
FilePdfEmpty == PdfFile(<<"z">> \o PDF, TRUE, TRUE, NoMetadata, <<>>, 21)

\* the files process_pdf_file is called on
SingleFiles ==
    { FileTxt, FileTxtUnreadable, FileTxtSurvey, FileCsv, FilePdfPages, FilePdfFallback,
      FilePdfBroken, FilePdfUpper, FilePdfMissing, FileTxtTop, FilePdfEmpty }

\* the directories (their files, in the order of the listing) and the lists of paths
Directories ==
    { <<FileTxt, FilePdfBroken, FilePdfPages, FileTxtUnreadable, FileCsv, FilePdfFallback,
        FilePdfUpper, FileTxtSurvey>>,
      <<FilePdfBroken, FilePdfPages>>,
      <<FileTxtUnreadable>>,
      <<>> }
PathLists ==
    { <<FilePdfMissing, FileTxt, FilePdfPages, FilePdfBroken, FileCsv, FileTxtTop>>,
      <<FileTxtUnreadable, FilePdfUpper, FilePdfFallback>> }

\* which of pdfplumber, PyPDF2 and the PDF processor are installed
Availabilities == [pdfplumber : BOOLEAN, pypdf2 : BOOLEAN, pdf_support : BOOLEAN]

\* the texts chunk_text is called on: letters, spaces and newlines, up to MaxTextLen long
MaxTextLen == 3
TextChars == {"a", SP, NL}
Texts == UNION {[1..n -> TextChars] : n \in 0..MaxTextLen}

\* chunk sizes from 0 (rejected) to one more than the longest text, overlaps from 0 to
\* more than the chunk size
MaxChunkSize == 4
ChunkSizes == 0..MaxChunkSize
ChunkOverlaps == 0..2

-----------------------------------------------------------------------------
(* Specifications *)

\* the vector database after construction, on a new persist directory
InitDb ==
    /\ collection = <<>>
    /\ pc = "idle"
    /\ all_chunks_text = <<>>
    /\ all_metadatas = <<>>
    /\ all_ids = <<>>
    /\ batch_i = 0
    /\ addCall = [documents |-> <<>>, chunk_size |-> 1, chunk_overlap |-> 0, hexes |-> <<>>,
                  start_id |-> 0]
    /\ earlier = <<>>
    /\ addOutcome = "none"
    /\ batches = <<>>
    /\ neighbours = <<>>
    /\ searchCall = [distance_threshold |-> 0, count |-> 0, fault |-> "none"]
    /\ searchResult = EmptyResult
    /\ searchOutcome = "none"
    /\ calls = 0

\* the variables of main when main has started in the given environment, or (pos =
\* "off") when the vector database is used without main
InitMain(pos, env, template, cfg, dir) ==
    /\ environ = env
    /\ prompt_config = template
    /\ config = cfg
    /\ data_dir = dir
    /\ mainPc = pos
    /\ error = "none"
    /\ llm = "none"
    /\ constructed = <<>>
    /\ vector_db = FALSE
    /\ chain = FALSE
    /\ sample_docs = <<>>
    /\ question = <<>>
    /\ reply = <<>>
    /\ invokeOutcome = "none"
    /\ llm_calls = 0
    /\ llm_input = [context |-> <<>>, question |-> <<>>]
    /\ llm_outcome = NotCalled
    /\ invocations = 0
    /\ reads = 0

\* no document source and no chunk_text has been called on its own; call holds the
\* arguments of the call of chunk_text to come
InitOtherWith(avail, call) ==
    /\ available = avail
    /\ pdf_call = [op |-> "none", files |-> <<>>, extract_metadata |-> TRUE]
    /\ pdf_result = <<>>
    /\ pdf_outcome = "none"
    /\ pdf_tried = <<>>
    /\ chunk_call = call
    /\ chunk_result = <<>>
    /\ chunk_outcome = "none"

InitOther(avail) == InitOtherWith(avail, [text |-> <<>>, chunk_size |-> 1, chunk_overlap |-> 0])

\* both PDF libraries and the PDF processor are installed
AllAvailable == [pdfplumber |-> TRUE, pypdf2 |-> TRUE, pdf_support |-> TRUE]

Init == InitDb /\ InitMain("off", NoEnv, None, DefaultConfig, <<>>) /\ InitOther(AllAvailable)

AddDocumentsFrom(lists, params, maxCalls) ==
    /\ calls < maxCalls
    /\ \E documents \in lists, p \in params :
         \E hexes \in HexChoices(documents) :
             AddDocuments(documents, p[1], p[2], hexes)
    /\ UNCHANGED <<appVars, otherVars>>

AddBatchStep ==
    /\ AddBatch \/ AddBatchEncodeRaises \/ AddBatchStoreRaises
    /\ UNCHANGED <<appVars, otherVars>>

SearchStep ==
    /\ \E distance_threshold \in Thresholds :
        \/ SearchEncodeRaises(distance_threshold)
        \/ SearchQueryRaises(distance_threshold)
        \/ \E query \in Queries, n_results \in NResultsChoices :
               Search(query, n_results, distance_threshold)
    /\ UNCHANGED <<appVars, otherVars>>

\* the vector database under searches and small ingestions
Next == AddDocumentsFrom(DocLists, ChunkParams, MaxCalls) \/ AddBatchStep \/ SearchStep

Spec == Init /\ [][Next]_vars

\* ingestion alone, over more kinds of documents
NextAdd == AddDocumentsFrom(AddDocLists, AddChunkParams, MaxAddCalls) \/ AddBatchStep

SpecAdd == Init /\ [][NextAdd]_vars

\* ingestion of long documents (several batches)
NextBatches == AddDocumentsFrom(BigDocLists, BigChunkParams, MaxBatchCalls) \/ AddBatchStep

SpecBatches == Init /\ [][NextBatches]_vars

\* main has started
InitApp(envs, templates, configs, dirs) ==
    /\ InitDb
    /\ \E env \in envs, template \in templates, cfg \in configs, dir \in dirs :
           InitMain("start", env, template, cfg, dir)
    /\ InitOther(AllAvailable)

MainIngestStep == \E hexes \in HexChoices(sample_docs) : MainIngest(hexes)

MainLoopStep(maxReads) ==
    /\ reads < maxReads
    /\ \E line \in Lines :
           \/ MainReadBlank(line)
           \/ MainReadQuit(line)
           \/ \E outcome \in LlmOutcomes : MainAsk(line, outcome)

MainStep(maxReads) ==
    MainConstruct \/ MainLoad \/ MainIngestStep \/ MainIngestBatch \/ MainLoopStep(maxReads)

\* main in every environment, up to the first lines of the loop
NextStartup == MainStep(MaxStartupReads)

SpecStartup == InitApp(Environments, Templates, StartupConfigs, DataDirs) /\ [][NextStartup]_vars

\* main in an environment in which it starts: the interactive loop
NextSession == MainStep(MaxReads)

SpecSession ==
    InitApp(SessionEnvironments, {Some(<<"t">>)}, SessionConfigs, SessionDataDirs)
        /\ [][NextSession]_vars

\* the document sources, with every combination of installed libraries
InitSources ==
    /\ InitDb
    /\ InitMain("off", NoEnv, None, DefaultConfig, <<>>)
    /\ \E avail \in Availabilities : InitOther(avail)

NextSources ==
    \/ \E f \in SingleFiles, extract_metadata \in BOOLEAN : ProcessPdfFileCall(f, extract_metadata)
    \/ \E files \in Directories : ProcessDirectoryCall(files)
    \/ ProcessDirectoryMissing
    \/ \E files \in PathLists : ProcessFilePathsCall(files)
    \/ \E files \in Directories : LoadDocumentsCall(files)

SpecSources == InitSources /\ [][NextSources]_vars

\* chunk_text on its own, on every text and every pair of parameters of the inputs
InitChunk ==
    /\ InitDb
    /\ InitMain("off", NoEnv, None, DefaultConfig, <<>>)
    /\ \E text \in Texts, chunk_size \in ChunkSizes, chunk_overlap \in ChunkOverlaps :
           InitOtherWith(AllAvailable, [text |-> text, chunk_size |-> chunk_size,
                                        chunk_overlap |-> chunk_overlap])

NextChunk == ChunkText

SpecChunk == InitChunk /\ [][NextChunk]_vars

-----------------------------------------------------------------------------
(* Properties of search *)

Threshold == searchCall.distance_threshold

\* the positions of the store's answer that are within the threshold
Within == {j \in 1..Len(neighbours) : neighbours[j].distance <= Threshold}

ResultLength(n) ==
    /\ Len(searchResult.documents) = n
    /\ Len(searchResult.metadatas) = n
    /\ Len(searchResult.distances) = n
    /\ Len(searchResult.ids) = n

PositionOf(i) == CHOOSE j \in 1..Len(neighbours) : neighbours[j].id = searchResult.ids[i]

\* C2: the result lists the surviving neighbours in the order the store returned them,
\* hence by non-decreasing distance, and the i-th entries of the four lists belong to
\* the same chunk.
C2_OrderAndAlignment ==
    searchOutcome = "returned" =>
        LET n == Len(searchResult.ids)
        IN  /\ ResultLength(n)
            /\ \A i \in 1..n : \E j \in 1..Len(neighbours) : neighbours[j].id = searchResult.ids[i]
            /\ \A i \in 1..n :
                   /\ searchResult.documents[i] = neighbours[PositionOf(i)].document
                   /\ searchResult.metadatas[i] = neighbours[PositionOf(i)].metadata
                   /\ searchResult.distances[i] = neighbours[PositionOf(i)].distance
            /\ \A i, k \in 1..n : i < k =>
                   /\ PositionOf(i) < PositionOf(k)
                   /\ searchResult.distances[i] <= searchResult.distances[k]

\* a result of several chunks at different distances, with different texts
C2_Witness ==
    /\ searchOutcome = "returned"
    /\ Len(searchResult.ids) >= 2
    /\ searchResult.distances[1] < searchResult.distances[Len(searchResult.ids)]
    /\ searchResult.documents[1] /= searchResult.documents[Len(searchResult.ids)]
    /\ Len(neighbours) > Len(searchResult.ids)

\* C3: when the collection is empty, or every neighbour the store returned is farther
\* than the threshold, search returns four empty lists, and it does not raise.
C3_EmptyWhenNothingRelevant ==
    /\ searchOutcome /= "raised"
    /\ (/\ searchOutcome = "returned"
        /\ searchCall.fault = "none"
        /\ \/ searchCall.count = 0
           \/ \A j \in 1..Len(neighbours) : neighbours[j].distance > Threshold)
       => searchResult = [documents |-> <<>>, metadatas |-> <<>>, distances |-> <<>>, ids |-> <<>>]

\* a search of a non-empty collection whose neighbours are all too far
C3_Witness ==
    /\ searchOutcome = "returned"
    /\ searchCall.fault = "none"
    /\ searchCall.count > 0
    /\ neighbours /= <<>>
    /\ \A j \in 1..Len(neighbours) : neighbours[j].distance > Threshold
    /\ searchResult.ids = <<>>

\* C4: when the embedding call or the store query fails, search does not raise; it
\* returns the all-empty result, the one it returns when nothing is relevant.
C4_FailureGivesEmptyResult ==
    (searchOutcome /= "none" /\ searchCall.fault /= "none") =>
        /\ searchOutcome = "returned"
        /\ searchResult = [documents |-> <<>>, metadatas |-> <<>>, distances |-> <<>>, ids |-> <<>>]

\* a failed store query on a collection that holds chunks
C4_Witness ==
    /\ searchOutcome = "returned"
    /\ searchCall.fault = "query"
    /\ searchCall.count > 0
    /\ searchResult.documents = <<>>

-----------------------------------------------------------------------------
(* Properties of add_documents *)

\* the chunks of every document of the running/last call, document by document
ChunksOfCall ==
    [d \in 1..Len(addCall.documents) |->
        chunk_text(addCall.documents[d].content, addCall.chunk_size, addCall.chunk_overlap)]

RECURSIVE SumLen(_)
SumLen(seqs) == IF seqs = <<>> THEN 0 ELSE Len(Head(seqs)) + SumLen(Tail(seqs))

\* C5: an add_documents call that completes increases collection.count() by exactly
\* the number of chunks its documents are split into, whatever the collection held
\* before the call.
C5_CountGrowsByChunks ==
    addOutcome = "returned" =>
        Count(collection) - addCall.start_id = SumLen(ChunksOfCall)

\* the call before the last one
Previous == earlier[Len(earlier)]

\* the last two calls both completed, on the same documents with the same chunk
\* parameters (and the same sources)
IngestedTwice ==
    /\ earlier /= <<>>
    /\ addOutcome = "returned"
    /\ Previous.outcome = "returned"
    /\ Previous.call.documents = addCall.documents
    /\ Previous.call.chunk_size = addCall.chunk_size
    /\ Previous.call.chunk_overlap = addCall.chunk_overlap
    /\ Previous.call.hexes = addCall.hexes

\* C6: ingesting the same documents twice appends duplicates: after the second call the
\* collection holds two stored chunks, under different ids, for each chunk of the
\* documents.
C6_ReingestAppendsDuplicates ==
    IngestedTwice =>
        /\ Count(collection) = Previous.call.start_id + 2 * Len(all_ids)
        /\ \A p \in 1..Len(all_ids) :
               \E i, j \in 1..Len(collection) :
                   /\ collection[i].id /= collection[j].id
                   /\ collection[i].document = all_chunks_text[p]
                   /\ collection[j].document = all_chunks_text[p]

\* C7: the index in the id of the p-th chunk of a call is count() at the start of the
\* call plus p - 1.
C7_IndexSeededFromCount ==
    \A p \in 1..Len(all_ids) :
        all_ids[p] = all_metadatas[p]["source"] \o <<"_">> \o Str(addCall.start_id + p - 1)

\* C8: within one call every chunk id is "{source}_{index}" and no two chunks get the
\* same id.
C8_IdsUniqueWithinCall ==
    /\ \A p \in 1..Len(all_ids) :
           \E n \in 0..(addCall.start_id + Len(all_ids)) :
               all_ids[p] = all_metadatas[p]["source"] \o <<"_">> \o Str(n)
    /\ \A p, q \in 1..Len(all_ids) : p /= q => all_ids[p] /= all_ids[q]

\* a call with more than ten chunks, two documents of one source, and a source that
\* contains an underscore and a digit
C8_Witness ==
    /\ Len(all_ids) > 10
    /\ \E p \in 1..Len(all_ids) : all_metadatas[p]["source"] = SrcA1
    /\ addCall.documents = <<DocLong, DocAB2>>

\* a call in which two documents have the same source
C8_WitnessSameSource ==
    /\ addCall.documents = <<DocAB, DocBlank, DocAB2>>
    /\ Len(all_ids) >= 3

\* the document that the p-th chunk of a call comes from, given the chunks of every
\* document
DocumentOf(chunks, p) ==
    CHOOSE d \in 1..Len(chunks) :
        /\ p > SumLen(SubSeq(chunks, 1, d - 1))
        /\ p <= SumLen(SubSeq(chunks, 1, d))

\* C9: add_documents hands its chunks to the collection in consecutive batches of at
\* most 500, every batch but the last of exactly 500; the batches, concatenated in
\* insertion order, are the chunks of the call in document order and then chunk order,
\* each exactly once, with the text, metadata and id of a chunk at the same position.
C9_BatchesInOrder ==
    LET flat     == Concat(batches)
        chunks   == <<>> \o ChunksOfCall
        expected == Concat(chunks)
    IN  /\ \A b \in 1..Len(batches) : Len(batches[b]) >= 1 /\ Len(batches[b]) <= 500
        /\ \A b \in 1..(Len(batches) - 1) : Len(batches[b]) = 500
        /\ addOutcome = "running" => \A b \in 1..Len(batches) : Len(batches[b]) = 500
        /\ Len(flat) <= Len(expected)
        /\ addOutcome = "returned" => Len(flat) = Len(expected)
        /\ \A p \in 1..Len(flat) :
               /\ flat[p].document = expected[p]
               /\ flat[p].id = all_ids[p]
               /\ flat[p].metadata = all_metadatas[p]
               /\ flat[p].metadata["source"] =
                      SourceOf(addCall.documents[DocumentOf(chunks, p)], Hex1)
               /\ flat[p].document =
                      chunks[DocumentOf(chunks, p)][p - SumLen(SubSeq(chunks, 1, DocumentOf(chunks, p) - 1))]

\* a completed call of three batches, the last one shorter
C9_Witness ==
    /\ addOutcome = "returned"
    /\ Len(batches) = 3
    /\ Len(batches[1]) = 500
    /\ Len(batches[3]) < 500
    /\ Len(addCall.documents) = 2

\* a completed call whose chunks fill its batches exactly
C9_WitnessExact ==
    /\ addOutcome = "returned"
    /\ Len(batches) = 2
    /\ Len(batches[2]) = 500

\* C10: when embedding or insertion fails on batch k, add_documents raises; the failing
\* step removes nothing and inserts nothing, so what batches 1..k-1 stored stays in the
\* collection, and the call is over: batch k and the later ones are never inserted.
C10_FailedBatchStep ==
    (pc = "adding" /\ addOutcome' \in {"raised:encode", "raised:add"}) =>
        /\ collection' = collection
        /\ pc' = "idle"
        /\ batches' = batches
        /\ Len(batches') = batch_i'
        /\ batch_i' < NumBatches(Len(all_ids'))
        /\ \A b \in 1..Len(batches') : \A r \in 1..Len(batches'[b]) :
               batches'[b][r].id \in Ids(collection')
        /\ Count(collection') <= addCall'.start_id + 500 * batch_i'

C10_NoRollback == [][C10_FailedBatchStep]_vars

\* a call that failed on its second batch of three: the first batch is in the collection
C10_Witness ==
    /\ AddRaised
    /\ batch_i = 1
    /\ NumBatches(Len(all_ids)) = 3
    /\ Count(collection) = addCall.start_id + 500

\* C11: the metadata of every chunk of a call has every key of its parent document's
\* metadata (with the parent's value for every key but "source" and "length"), a
\* "source" equal to the source in the chunk's id, and a "length" equal to the number of
\* characters of the chunk's text.
C11_ChunkMetadata ==
    LET chunks == <<>> \o ChunksOfCall
    IN  \A p \in 1..Len(all_ids) :
            LET parent == MetadataOf(addCall.documents[DocumentOf(chunks, p)])
                meta   == all_metadatas[p]
            IN  /\ DOMAIN parent \cup {"source", "length"} \subseteq DOMAIN meta
                /\ \A k \in DOMAIN parent \ {"source", "length"} : meta[k] = parent[k]
                /\ all_ids[p] = meta["source"] \o <<"_">> \o Str(p - 1)
                /\ meta["length"] = Len(all_chunks_text[p])

-----------------------------------------------------------------------------
(* Properties of the collection *)

\* s is an initial part of t
IsPrefix(s, t) == Len(s) <= Len(t) /\ SubSeq(t, 1, Len(s)) = s

\* C12: every step leaves the stored chunks where they are, with their id, text,
\* embedding and metadata, and at most appends chunks after them (so count() never
\* decreases); a step of search leaves the collection as it is.
C12_Step ==
    /\ IsPrefix(collection, collection')
    /\ Count(collection') >= Count(collection)
    /\ searchVars' /= searchVars => collection' = collection

C12_AppendOnly == [][C12_Step]_vars

\* a second ingestion handed the collection a record under a stored id with another
\* text, the stored chunk is still the old one, and a search ran on that collection
C12_Witness ==
    /\ calls = 2
    /\ addOutcome = "returned"
    /\ \E b \in 1..Len(batches) : \E r \in 1..Len(batches[b]) :
           \E i \in 1..Len(collection) :
               /\ collection[i].id = batches[b][r].id
               /\ collection[i].document /= batches[b][r].document
    /\ searchOutcome = "returned"
    /\ searchCall.count = Count(collection)
    /\ searchResult.ids /= <<>>

-----------------------------------------------------------------------------
(* Properties of the assistant *)

\* the store returned no chunk within the threshold to the search that just ran
NothingRelevant == \A j \in 1..Len(neighbours') : neighbours'[j].distance > config.distance_threshold

\* C13: an invoke whose retrieval yields no chunk within the threshold returns the
\* refusal phrase, without calling the LLM and without raising; an invoke calls the LLM
\* (once) only when its search returned at least one chunk.
C13_Invocation ==
    invocations' /= invocations =>
        /\ NothingRelevant => searchResult'.documents = <<>>
        /\ searchResult'.documents = <<>> =>
               /\ reply' = Refusal
               /\ llm_calls' = llm_calls
               /\ ~llm_outcome'.called
               /\ invokeOutcome' = "returned"
        /\ llm_calls' /= llm_calls =>
               /\ llm_calls' = llm_calls + 1
               /\ searchResult'.documents /= <<>>
               /\ Len(llm_input'.context) = Len(searchResult'.documents)

C13_RefusalWithoutLlm == [][C13_Invocation]_vars

\* the assistant refused, without any LLM call, a question for which the store had
\* returned chunks, all of them too far
C13_Witness ==
    /\ invocations = 1
    /\ llm_calls = 0
    /\ reply = Refusal
    /\ searchCall.fault = "none"
    /\ neighbours /= <<>>
    /\ \A j \in 1..Len(neighbours) : neighbours[j].distance > config.distance_threshold

\* C14: when chain.invoke raises, invoke returns: its value is the string "An error
\* occurred during LLM generation: " followed by the text of the exception.
C14_LlmFailureIsReply ==
    (llm_outcome.called /\ llm_outcome.raises) =>
        /\ invokeOutcome = "returned"
        /\ reply = <<"An error occurred during LLM generation: ", llm_outcome.e>>
        /\ mainPc /= "fatal"

\* an invoke in which the LLM was called on retrieved chunks and raised
C14_Witness ==
    /\ llm_outcome.called
    /\ llm_outcome.raises
    /\ llm_input.context /= <<>>
    /\ invokeOutcome = "returned"
    /\ Len(reply) = 2

Priority == <<"GROQ_API_KEY", "OPENAI_API_KEY", "GOOGLE_API_KEY">>
Providers == <<"groq", "openai", "google">>

\* the credentials that are set to a non-empty string, by their rank in the priority
Present == {i \in 1..3 : environ[Priority[i]] /= <<>> /\ environ[Priority[i]] /= << <<>> >>}

\* C15: once the assistant is constructed, the provider is the one of the first present
\* credential in the order Groq, OpenAI, Google, and its client is the only client
\* constructed; without any credential no client is constructed.
C15_ProviderPriority ==
    mainPc /= "start" =>
        IF Present = {}
        THEN constructed = <<>> /\ llm = "none"
        ELSE constructed = <<Providers[Min(Present)]>> /\ llm = Providers[Min(Present)]

\* OpenAI chosen over Google, with a Groq credential that is set but empty
C15_Witness ==
    /\ mainPc /= "start"
    /\ environ.GROQ_API_KEY = << <<>> >>
    /\ 2 \in Present
    /\ 3 \in Present
    /\ llm = "openai"
    /\ constructed = <<"openai">>

\* no credential is present, or the prompt configuration has no template
ConfigurationError == Present = {} \/ prompt_config = <<>> \/ prompt_config = << <<>> >>

\* C16: with a configuration error the construction of the assistant raises and main
\* ends in its except clause: no document is loaded or ingested, no line is read, no
\* question answered.
C16_ConfigErrorIsFatal ==
    (ConfigurationError /\ mainPc /= "start") =>
        /\ mainPc = "fatal"
        /\ error \in {"ValueError: LLM initialization failed",
                      "ValueError: Prompt template not found"}
        /\ ~chain
        /\ sample_docs = <<>>
        /\ calls = 0
        /\ addOutcome = "none"
        /\ collection = <<>>
        /\ reads = 0
        /\ invocations = 0
        /\ llm_calls = 0

\* main ended on a template that is empty, after the LLM and the VectorDB were built
C16_Witness ==
    /\ mainPc = "fatal"
    /\ Present /= {}
    /\ prompt_config = << <<>> >>
    /\ vector_db
    /\ error = "ValueError: Prompt template not found"

\* main ended for want of a credential (one is set, to the empty string)
C16_WitnessNoCredential ==
    /\ mainPc = "fatal"
    /\ Present = {}
    /\ environ.OPENAI_API_KEY = << <<>> >>
    /\ ~vector_db
    /\ error = "ValueError: LLM initialization failed"

\* the step reads a line in the loop
ReadsLine == mainPc = "loop" /\ reads' = reads + 1

\* the line just read, stripped and in lower case, is quit or exit
QuitTyped == Lower(question') \in {<<"q", "u", "i", "t">>, <<"e", "x", "i", "t">>}

\* the retrieval or the generation failed in the invoke that just ran
InvokeFailed == searchCall'.fault /= "none" \/ (llm_outcome'.called /\ llm_outcome'.raises)

\* C18: in the loop, a blank line is skipped without calling the assistant; quit or exit
\* (in any case, with blanks around) ends the loop and nothing else does; any other line
\* is answered by a reply string, also when the retrieval or the generation fails, and
\* main is back at the prompt.
C18_LoopStep ==
    /\ (mainPc = "loop" /\ mainPc' /= "loop") => (ReadsLine /\ QuitTyped /\ mainPc' = "ended")
    /\ ReadsLine =>
           /\ question' = Strip(question')
           /\ QuitTyped => mainPc' = "ended" /\ invocations' = invocations
           /\ question' = <<>> =>
                  /\ mainPc' = "loop"
                  /\ invocations' = invocations
                  /\ llm_calls' = llm_calls
                  /\ searchVars' = searchVars
                  /\ reply' = reply
           /\ (question' /= <<>> /\ ~QuitTyped) =>
                  /\ invocations' = invocations + 1
                  /\ invokeOutcome' = "returned"
                  /\ reply' /= <<>>
                  /\ mainPc' = "loop"
                  /\ InvokeFailed => reply' /= <<>> /\ mainPc' = "loop" /\ error' = "none"

C18_WitnessRetrieval ==
    /\ mainPc = "loop"
    /\ reads = 2
    /\ invocations = 1
    /\ searchCall.fault /= "none"
    /\ reply = Refusal
    /\ question = <<>>

-----------------------------------------------------------------------------
(* Properties of the document sources *)

\* the files of the last call in the order process_directory takes them: the PDFs, then
\* the text files, each group in the order of the listing
ProcessingOrder ==
    SelectSeq(pdf_call.files, LAMBDA f : EndsWith(f.name, <<".", "p", "d", "f">>))
        \o SelectSeq(pdf_call.files, LAMBDA f : EndsWith(f.name, <<".", "t", "x", "t">>))

\* process_pdf_file succeeds on the file
Succeeds(f) == ProcessPdfFile(f, TRUE, available).raises = "none"

\* pdfplumber fails on the page
PageFails(page) == page.tables_raise \/ page.text_raises

\* the content of a PDF that pdfplumber opened has, for every page, its marker and its
\* text, or its error marker when the extraction of the page failed
PagesRecovered(content, pages) ==
    \A n \in 1..Len(pages) :
        IF PageFails(pages[n])
        THEN Contains(content, PageErrorMarker(n)) /\ ~Contains(content, PageMarker(n))
        ELSE /\ Contains(content, pages[n].text \o <<NL>> \o PageMarker(n))
             /\ ~Contains(content, PageErrorMarker(n))

\* C17: process_directory on an existing directory returns, and its result is the
\* documents of the files on which process_pdf_file succeeds, in processing order;
\* load_documents returns the documents of the .txt files it could read, in order; and
\* a PDF that pdfplumber opens gives a document in which every page that can be
\* extracted is there, whatever pages before it failed.
C17_PerUnitRecovery ==
    /\ (pdf_call.op = "process_directory" /\ pdf_outcome /= "FileNotFoundError") =>
           LET ok == SelectSeq(ProcessingOrder, Succeeds)
           IN  /\ pdf_outcome = "returned"
               /\ Len(pdf_result) = Len(ok)
               /\ \A i \in 1..Len(ok) :
                      /\ pdf_result[i] = ProcessPdfFile(ok[i], TRUE, available).doc
                      /\ pdf_result[i].metadata["source"] = ok[i].name
    /\ pdf_call.op = "load_documents" =>
           LET txt == SelectSeq(pdf_call.files, LAMBDA f : EndsWith(f.name, <<".", "t", "x", "t">>))
               ok  == SelectSeq(txt, LAMBDA f : f.readable)
           IN  /\ pdf_outcome = "returned"
               /\ txt /= <<>> => Len(pdf_result) = Len(ok)
               /\ txt /= <<>> => \A i \in 1..Len(ok) :
                      pdf_result[i] = [content |-> ok[i].content,
                                       metadata |-> [source |-> ok[i].name]]
    /\ (pdf_call.op \in {"process_directory", "process_pdf_file"} /\ available.pdfplumber) =>
           \A f \in {pdf_call.files[k] : k \in 1..Len(pdf_call.files)} :
               \A i \in 1..Len(pdf_result) :
                   (pdf_result[i].metadata["source"] = f.name /\ f.plumber_opens
                        /\ EndsWith(Lower(f.name), <<".", "p", "d", "f">>))
                   => PagesRecovered(pdf_result[i].content, f.pages)

\* a directory in which a PDF and a text file fail and the files after them are
\* processed, one of them a PDF with failing pages in the middle
C17_Witness ==
    /\ pdf_call.op = "process_directory"
    /\ pdf_outcome = "returned"
    /\ available.pdfplumber
    /\ Len(pdf_call.files) = 8
    /\ Len(pdf_result) = 4
    /\ Contains(pdf_result[1].content, PageErrorMarker(2))
    /\ Contains(pdf_result[1].content, PageMarker(4))

\* the document is a PDF's
IsPdfDocument(doc) == "file_size_kb" \in DOMAIN doc.metadata

\* the document comes from the file (the files of a call differ in size and the text
\* files in content)
BelongsTo(doc, f) ==
    IF IsPdfDocument(doc)
    THEN "size" \in DOMAIN f /\ doc.metadata["file_size_kb"] = f.size
    ELSE doc.content = f.content /\ EndsWith(f.name, <<".", "t", "x", "t">>)

\* the files a document of the last call can come from
Candidates == {pdf_call.files[k] : k \in 1..Len(pdf_call.files)} \cup {SampleFile}

\* C20: every document a document source returns has a "source" in its metadata, equal
\* to the base name of the file it comes from.
C20_SourceIsBaseName ==
    pdf_outcome = "returned" =>
        \A i \in 1..Len(pdf_result) :
            /\ \E f \in Candidates : BelongsTo(pdf_result[i], f)
            /\ \A f \in Candidates :
                   BelongsTo(pdf_result[i], f) =>
                       /\ "source" \in DOMAIN pdf_result[i].metadata
                       /\ pdf_result[i].metadata["source"] = f.name
                       /\ \A c \in 1..Len(f.name) : f.name[c] /= "/"

\* a PDF in a directory, with a "source" entry in its information dictionary, processed
\* without the content-based metadata
C20_Witness ==
    /\ pdf_call.op = "process_pdf_file"
    /\ ~pdf_call.extract_metadata
    /\ pdf_outcome = "returned"
    /\ pdf_call.files[1].dir /= <<>>
    /\ "source" \in DOMAIN pdf_call.files[1].info
    /\ pdf_result[1].metadata["source"] = <<"p", ".", "p", "d", "f">>

-----------------------------------------------------------------------------
(* Properties of chunk_text on short texts *)

\* the text of the call is shorter than the chunk size and the splitter takes the parameters
ShortText ==
    /\ chunk_outcome /= "none"
    /\ Len(chunk_call.text) < chunk_call.chunk_size
    /\ chunk_call.chunk_overlap >= 0
    /\ chunk_call.chunk_overlap <= chunk_call.chunk_size

\* C19 as stated: for a text shorter than chunk_size, chunk_text returns exactly one
\* chunk, equal to the text.
C19_OneChunkEqualToInput ==
    ShortText => (chunk_outcome = "returned" /\ chunk_result = <<chunk_call.text>>)

\* C19, amended: for a text shorter than chunk_size, chunk_text returns the text without
\* its leading and trailing whitespace as the only chunk, and no chunk when nothing is
\* left of the text; the chunk is the text itself when the text neither starts nor ends
\* with whitespace.
C19_OneStrippedChunk ==
    ShortText =>
        /\ chunk_outcome = "returned"
        /\ Len(chunk_result) <= 1
        /\ (Len(chunk_result) = 0) = (\A i \in 1..Len(chunk_call.text) : IsSpace(chunk_call.text[i]))
        /\ Len(chunk_result) = 1 =>
               /\ ~IsSpace(Head(chunk_result[1]))
               /\ ~IsSpace(chunk_result[1][Len(chunk_result[1])])
               /\ \E lead, trail \in Texts :
                      /\ \A i \in 1..Len(lead) : IsSpace(lead[i])
                      /\ \A i \in 1..Len(trail) : IsSpace(trail[i])
                      /\ chunk_call.text = lead \o chunk_result[1] \o trail

\* a text with whitespace at both ends, shorter than the chunk size
C19_Witness ==
    /\ chunk_outcome = "returned"
    /\ chunk_call.text = <<SP, "a", NL>>
    /\ chunk_call.chunk_size = 4
    /\ chunk_call.chunk_overlap = 1
    /\ chunk_result = << <<"a">> >>

-----------------------------------------------------------------------------
(* Properties of the fallback between the extraction methods *)

\* the last call is process_pdf_file on a PDF that exists, so that it ran _process_pdf
RanProcessPdf ==
    /\ pdf_call.op = "process_pdf_file"
    /\ pdf_call.files[1].exists
    /\ EndsWith(Lower(pdf_call.files[1].name), <<".", "p", "d", "f">>)

\* pdfplumber is installed and extracts the file
PdfplumberGives(f) == available.pdfplumber /\ f.plumber_opens

\* PyPDF2 is to be attempted on the file: it is installed, and pdfplumber is not
\* installed or raised
PyPdf2Due(f) == available.pypdf2 /\ ~PdfplumberGives(f)

\* C21: _process_pdf tries pdfplumber first when it is installed, then PyPDF2 exactly
\* when PyPDF2 is installed and pdfplumber is not installed or raised; it raises
\* RuntimeError exactly when no method it tried gave a content, and returns otherwise
\* the content of the first method that gave one.
C21_FallbackOrder ==
    RanProcessPdf =>
        LET f == pdf_call.files[1]
        IN  /\ pdf_tried = (IF available.pdfplumber THEN <<"pdfplumber">> ELSE <<>>)
                               \o (IF PyPdf2Due(f) THEN <<"PyPDF2">> ELSE <<>>)
            /\ pdf_outcome \in {"returned", "RuntimeError"}
            /\ (pdf_outcome = "RuntimeError") =
                   (~PdfplumberGives(f) /\ ~(PyPdf2Due(f) /\ f.pypdf2_opens))
            /\ (pdf_outcome = "returned" /\ PdfplumberGives(f)) =>
                   pdf_result[1].content = JoinWith(<<NL>>, PlumberParts(f.pages))
            /\ (pdf_outcome = "returned" /\ ~PdfplumberGives(f)) =>
                   pdf_result[1].content = ExtractWithPyPdf2(f).content

\* a PDF that pdfplumber cannot open and PyPDF2 reads, with both installed
C21_Witness ==
    /\ RanProcessPdf
    /\ available.pdfplumber
    /\ available.pypdf2
    /\ ~pdf_call.files[1].plumber_opens
    /\ pdf_tried = <<"pdfplumber", "PyPDF2">>
    /\ pdf_outcome = "returned"
    /\ Contains(pdf_result[1].content, <<"t">> \o <<NL>> \o PageMarker(2))

\* a PDF without pages, whose content from pdfplumber is empty: PyPDF2 is not tried
C21_WitnessEmptyContent ==
    /\ RanProcessPdf
    /\ available.pdfplumber
    /\ available.pypdf2
    /\ pdf_call.files[1].pages = <<>>
    /\ pdf_tried = <<"pdfplumber">>
    /\ pdf_outcome = "returned"
    /\ pdf_result[1].content = <<>>

====
